---------------------------- MODULE Spec2Model ----------------------------
(***************************************************************************)
(* Model of the subscription-driven telemetry fan-out engine of the bridge *)
(* server (apps/bridge/src-tauri/src/server): the topic registry           *)
(* (active_topics), the LoopManager, the WebSocket sessions (handle_socket *)
(* with its send and recv tasks), the SSE sessions (handle_stream) and the *)
(* stats loop with the per-session projection of its events.               *)
(*                                                                         *)
(* Spec models the registry, the LoopManager and the session life cycles   *)
(* at the granularity of their lock regions: the tasks run on a            *)
(* multi-threaded runtime, and every mutex acquisition is one step.        *)
(*                                                                         *)
(* SpecBus models the data path: the stats loop, the broadcast channel and *)
(* the filters of the sessions.  There a handler is one step.              *)
(***************************************************************************)
EXTENDS Integers, Sequences, FiniteSets, TLC

(***************************************************************************)
(* Bounds of the model.                                                    *)
(***************************************************************************)
NumWs == 2
NumSse == 1
MaxSubscribes == 2

WsIds == 1..NumWs
SseIds == 1..NumSse

(***************************************************************************)
(* Topics.  Topics is the universe of lower-case topic names the registry  *)
(* can see in this model; "custom" stands for a topic the server does not  *)
(* know.  WireTopics are the strings a client can put in a subscribe       *)
(* message (mixed case included).                                          *)
(***************************************************************************)
StatsSubFields == {"cpu", "memory", "gpu", "disks", "network"}

Topics ==
  {"stats", "stats.cpu", "stats.memory", "stats.gpu", "stats.disks",
   "stats.network", "cpu", "memory", "gpu", "disks", "network", "net",
   "system", "media", "stats.media", "processes", "process", "custom"}

WireTopics == Topics \cup {"CPU", "Stats", "NET", "Media"}

\* str::to_lowercase on the wire topics of the model
to_lowercase(t) ==
  CASE t = "CPU" -> "cpu"
    [] t = "Stats" -> "stats"
    [] t = "NET" -> "net"
    [] t = "Media" -> "media"
    [] OTHER -> t

\* ws.rs expand_topic
expand_topic(topic) ==
  CASE topic = "stats" ->
         {"stats", "stats.cpu", "stats.memory", "stats.gpu", "stats.disks",
          "stats.network", "cpu", "memory", "gpu", "disks", "network"}
    [] topic = "cpu" -> {"cpu", "stats.cpu"}
    [] topic = "memory" -> {"memory", "stats.memory"}
    [] topic = "gpu" -> {"gpu", "stats.gpu"}
    [] topic = "disks" -> {"disks", "stats.disks"}
    [] topic \in {"network", "net"} -> {"network", "stats.network"}
    [] OTHER -> {topic}

\* The new_set a Subscribe message builds from req.topics (a sequence)
NewSet(topics) ==
  UNION {expand_topic(to_lowercase(topics[i])) : i \in DOMAIN topics}

(***************************************************************************)
(* Option<HashSet<String>>: None is the empty set, Some(x) is {x}.         *)
(***************************************************************************)
None == {}
Some(x) == {x}
IsSome(o) == o # {}
Unwrap(o) == CHOOSE x \in o : TRUE

take_clone(o) == o

\* Option::take: what it leaves in place of the value it returns
take(o) == None

(***************************************************************************)
(* LoopManager: the topic families.                                        *)
(***************************************************************************)
Families == {"stats", "media", "processes"}

is_stats_topic(topic) ==
  topic \in {"stats", "stats.cpu", "stats.memory", "stats.gpu", "stats.disks",
             "stats.network", "cpu", "memory", "gpu", "disks", "network",
             "system"}
is_media_topic(topic) == topic \in {"media", "stats.media"}
is_processes_topic(topic) == topic \in {"processes", "process"}

\* The branch ensure_loop_running and stop_loop_if_idle take for a topic
FamilyOf(topic) ==
  IF is_stats_topic(topic) THEN "stats"
  ELSE IF is_media_topic(topic) THEN "media"
  ELSE IF is_processes_topic(topic) THEN "processes"
  ELSE "none"

\* The topic lists stop_loop_if_idle consults per family
FamilyTopics(f) ==
  CASE f = "stats" ->
         {"stats", "stats.cpu", "stats.memory", "stats.gpu", "stats.disks",
          "stats.network", "cpu", "memory", "gpu", "disks", "network",
          "system"}
    [] f = "media" -> {"media", "stats.media"}
    [] f = "processes" -> {"processes", "process"}
    [] OTHER -> {}

\* has_stats_subs / has_media_subs / has_process_subs
has_subs(reg, f) == \E t \in FamilyTopics(f) : reg[t] > 0

(***************************************************************************)
(* Registry updates of subscribe_topics and unsubscribe_topics (the part   *)
(* done under the active_topics lock).  The topic slices come from a       *)
(* HashSet or from the literal ["stats"], so they hold no duplicates.      *)
(***************************************************************************)
SubscribeCounts(reg, topics) ==
  [t \in Topics |-> IF t \in topics THEN reg[t] + 1 ELSE reg[t]]

topics_to_start(reg, topics) == {t \in topics : reg[t] = 0}

UnsubscribeCounts(reg, topics) ==
  [t \in Topics |-> IF t \in topics /\ reg[t] > 0 THEN reg[t] - 1 ELSE reg[t]]

topics_to_stop(reg, topics) == {t \in topics : reg[t] = 1}

(***************************************************************************)
(* State.                                                                  *)
(***************************************************************************)
VARIABLES
  active_topics,   \* AppState.active_topics: topic -> count
  handle,          \* LoopManager.<family>_handle: "none" | "some" (Option<JoinHandle>)
  subscriptions,   \* per WS session: Option<HashSet<String>>
  pc,              \* position of every task
  call,            \* the subscribe_topics/unsubscribe_topics call a task is in
  recv_new,        \* recv task local: new_set
  recv_abort,      \* recv_task.abort() was called while the task was running
  n_subscribes,    \* subscribe messages received so far (bounded by MaxSubscribes)
  stats_loop,      \* the stats loop task: "none" | "first" | "sleeping" | "exited"
  stats_enabled,   \* config.websocket.stats.enabled
  gpu_enabled,     \* config.stats.gpu_enabled
  gpu_cache,       \* AppState.gpu_cache holds a sample
  bus,             \* the broadcast channel: the events a receiver may still read
  behind,          \* per bus receiver: how many events of bus it has not received
  lagged,          \* per bus receiver: it lost events; its next recv says Lagged
  sse_fields,      \* per SSE session: fields_set
  delivered,       \* the last frame written to a connection, and to which
  n_toggles,       \* configuration commands run so far (bounded by MaxToggles)
  media_loop,      \* the media loop task: "none" | "first" | "sleeping"
  processes_loop,  \* the processes loop task: "none" | "first" | "sleeping"
  last_status,     \* media loop local: Option of the signature last sent
  loop_interval,   \* per family, loop local: Option of the interval_ms last read
  aborted,         \* per family: an aborted loop task has not reached an await yet
  auth_config,     \* config.auth: enabled, api_key, allowed_ips, blocked_ips
  request,         \* the request the auth middleware is handling: Option
  response,        \* what the middleware did with it: "none" | "next" | "403" | "401"
  status,          \* the shared ServerStatus
  control,         \* ServerControl.tx: Option of the supervisor whose sender it holds
  sup,             \* per supervisor: where start_server is
  signal,          \* per supervisor: shutdown_rx.recv() would return
  reload,          \* where reload_config is: "idle" | "sleep"
  cfg_port,        \* config.server.port
  sup_port,        \* per supervisor: the port argument of start_server
  conn,            \* per supervisor: the session open on it: "none" | "ws" | "sse"
  gen_loop,        \* per supervisor: a sampling loop of its LoopManager runs
  mailbox,         \* per WS session: the frames in the outgoing channel
  features,        \* config.features: enable_media, enable_processes, enable_stats, enable_stream
  n_commands,      \* control and malformed messages received so far (bounded)
  cfg_host,        \* config.server.host
  ws_interval,     \* config.websocket.<family>.interval_ms
  disk_cache_seconds,      \* config.stats.disk_cache_seconds
  stream_interval_seconds, \* config.stats.stream_interval_seconds
  loops,                   \* per family, the loop tasks spawned and not aborted
  refreshed,               \* the samplers and backends the last loop iteration called
  sent,                    \* Option of the event the last loop iteration sent
  lock_owner,              \* per mutex, the task that holds it
  lock_prog,               \* per task, the lock and unlock steps of its current call
  lock_pc,                 \* per task, its position in lock_prog (0: no call)
  now,                     \* the monotonic clock, in seconds
  gpu_updated,             \* Option of last_updated of the sample in AppState.gpu_cache
  gpu_out                  \* what the last call of get_or_update_gpu_stats did

regVars == <<active_topics, handle>>
sessVars == <<subscriptions, pc, call, recv_new, recv_abort, n_subscribes>>
famVars == <<media_loop, processes_loop, last_status, loop_interval, aborted>>
busVars == <<stats_loop, famVars, stats_enabled, gpu_enabled, gpu_cache, bus, behind,
             lagged, sse_fields, delivered, n_toggles>>
authVars == <<auth_config, request, response>>
supVars == <<status, control, sup, signal, reload, cfg_port, sup_port, conn, gen_loop>>
ctlVars == <<mailbox, features, n_commands>>
cfgVars == <<cfg_host, ws_interval, disk_cache_seconds, stream_interval_seconds>>
loopVars == <<loops, refreshed, sent>>
lockVars == <<lock_owner, lock_prog, lock_pc>>
gpuVars == <<now, gpu_updated, gpu_out>>
restVars == <<gpuVars>>
extVars == <<cfgVars, loopVars, lockVars, restVars>>
auxVars == <<authVars, supVars, ctlVars, extVars>>
engineVars == <<regVars, sessVars, busVars>>
vars == <<regVars, sessVars, busVars, auxVars>>

Tasks == ({"main", "recv", "send"} \X WsIds) \cup ({"sse"} \X SseIds)

Main(s) == <<"main", s>>
Recv(s) == <<"recv", s>>
Send(s) == <<"send", s>>
Sse(e) == <<"sse", e>>

NoCall == [op |-> "none", stage |-> "none", args |-> {}, todo |-> {}, fam |-> "none"]
StartCall(op, topics) ==
  [op |-> op, stage |-> "lock", args |-> topics, todo |-> {}, fam |-> "none"]

Receivers == {Main(s) : s \in WsIds} \cup {Sse(e) : e \in SseIds}

\* The subscribe messages of the model
Requests == {<< >>, <<"CPU">>, <<"stats.gpu", "Media">>}

\* AppState::new and LoopManager::new: nothing subscribed, no loop, empty bus
InitEngine ==
  /\ active_topics = [t \in Topics |-> 0]
  /\ handle = [f \in Families |-> "none"]
  /\ subscriptions = [s \in WsIds |-> None]
  /\ pc = [t \in Tasks |-> "init"]
  /\ call = [t \in Tasks |-> NoCall]
  /\ recv_new = [s \in WsIds |-> {}]
  /\ recv_abort = [s \in WsIds |-> FALSE]
  /\ n_subscribes = 0
  /\ stats_loop = "none"
  /\ media_loop = "none"
  /\ processes_loop = "none"
  /\ last_status = None
  /\ loop_interval = [f \in Families |-> None]
  /\ aborted = [f \in Families |-> FALSE]
  /\ stats_enabled = TRUE
  /\ gpu_enabled = TRUE
  /\ gpu_cache = FALSE
  /\ bus = << >>
  /\ behind = [r \in Receivers |-> 0]
  /\ lagged = [r \in Receivers |-> FALSE]
  /\ sse_fields = [e \in SseIds |-> {}]
  /\ delivered = None
  /\ n_toggles = 0

\* AuthConfig of AppConfig::default
DefaultAuth ==
  [enabled |-> FALSE, api_key |-> None, allowed_ips |-> << >>, blocked_ips |-> << >>]

InitAuthIdle ==
  /\ auth_config = DefaultAuth
  /\ request = None
  /\ response = "none"

\* The supervisors a run may start (the first one and the reloads)
MaxGens == 3

Gens == 1..MaxGens

\* server.port of AppConfig::default, and another port a reload may set
DefaultPort == 9990
OtherPort == 9991
Ports == {DefaultPort, OtherPort}

\* the setup hook of run(): the status cell is created Starting and the
\* first supervisor is spawned
InitSup ==
  /\ status = "Starting"
  /\ control = Some(1)
  /\ sup = [g \in Gens |-> IF g = 1 THEN "spawned" ELSE "none"]
  /\ signal = [g \in Gens |-> FALSE]
  /\ reload = "idle"
  /\ cfg_port = DefaultPort
  /\ sup_port = [g \in Gens |-> DefaultPort]
  /\ conn = [g \in Gens |-> "none"]
  /\ gen_loop = [g \in Gens |-> FALSE]

\* config.features with the given enable_media and enable_processes; the
\* other flags as in AppConfig::default
Features(media, processes) ==
  [enable_media |-> media, enable_processes |-> processes,
   enable_stats |-> TRUE, enable_stream |-> TRUE]

\* no frame queued; the flags of AppConfig::default
InitCtlIdle ==
  /\ mailbox = [s \in WsIds |-> << >>]
  /\ features = Features(TRUE, TRUE)
  /\ n_commands = 0

\* server.host, websocket and stats of AppConfig::default
InitCfg ==
  /\ cfg_host = "0.0.0.0"
  /\ ws_interval = [f \in Families |->
                      CASE f = "stats" -> 1000 [] f = "media" -> 500 [] OTHER -> 3000]
  /\ disk_cache_seconds = 30
  /\ stream_interval_seconds = 2

\* no loop task is spawned before the first subscribe
InitLoops ==
  /\ loops = [f \in Families |-> 0]
  /\ refreshed = {}
  /\ sent = None

\* The mutexes of AppState and LoopManager the registry operations take
HandleLocks == {"stats_handle", "media_handle", "processes_handle"}
Locks == {"active_topics", "config", "system", "gpu_cache"} \cup HandleLocks

\* The tasks that call them: the recv tasks of the sessions, the stats loop,
\* two requests of get_system_info or get_system_usage
HttpTasks == {<<"http", 1>>, <<"http", 2>>}
LockTasks == {<<"recv", s>> : s \in WsIds} \cup {<<"loop", 1>>} \cup HttpTasks

\* no mutex is held and no call is in progress
InitLocks ==
  /\ lock_owner = [l \in Locks |-> None]
  /\ lock_prog = [t \in LockTasks |-> << >>]
  /\ lock_pc = [t \in LockTasks |-> 0]

\* what get_or_update_gpu_stats did: the sample returned (by its
\* last_updated), whether get_gpu_stats ran and whether it gave a sample
GpuOut(value, probed, ok) == [value |-> value, probed |-> probed, ok |-> ok]

\* AppState::new: gpu_cache is None (mod.rs line 475); no call yet
InitGpu ==
  /\ now = 0
  /\ gpu_updated = None
  /\ gpu_out = None

InitExt == InitCfg /\ InitLoops /\ InitLocks /\ InitGpu

Init ==
  /\ InitEngine
  /\ InitAuthIdle
  /\ InitSup
  /\ InitCtlIdle
  /\ InitExt

(***************************************************************************)
(* A call of subscribe_topics or unsubscribe_topics by a task.  The call   *)
(* first updates the counts under the registry lock (stage "lock"), then   *)
(* walks its transition list outside the lock (stage "loop"), calling the  *)
(* LoopManager once per topic.  The list is walked in the iteration order  *)
(* of a HashSet, which is arbitrary; the LoopManager looks only at the     *)
(* family of the topic, so the model picks any family next and one fixed   *)
(* topic of it.                                                            *)
(***************************************************************************)
NextTopics(todo) ==
  {CHOOSE t \in todo : FamilyOf(t) = f : f \in {FamilyOf(t) : t \in todo}}

\* Where a task goes when its current call returns
NextPc(t) ==
  CASE pc[t] = "sub_unsub" -> "sub_sub"
    [] pc[t] = "sub_sub" -> "sub_store"
    [] pc[t] = "cleanup" -> "done"
    [] pc[t] = "final_unsub" -> "returned"
    [] pc[t] = "sse_subscribe" -> "unpolled"
    [] pc[t] = "sse_drop" -> "closed"

\* ws.rs 196-206: unsubscribe_topics(old) is followed by subscribe_topics(new)
NextCall(t) ==
  IF pc[t] = "sub_unsub" THEN StartCall("sub", recv_new[t[2]]) ELSE NoCall

\* The call of task t goes on with the topics todo, or returns
Advance(t, todo) ==
  IF todo = {}
  THEN /\ pc' = [pc EXCEPT ![t] = NextPc(t)]
       /\ call' = [call EXCEPT ![t] = NextCall(t)]
  ELSE /\ call' = [call EXCEPT ![t] = [op |-> call[t].op, stage |-> "loop",
                                       args |-> {}, todo |-> todo,
                                       fam |-> "none"]]
       /\ UNCHANGED pc

\* LoopManager::ensure_loop_running: the handle slots after the call
ensure_loop_running(h, topic) ==
  IF FamilyOf(topic) \in Families /\ h[FamilyOf(topic)] = "none"
  THEN [h EXCEPT ![FamilyOf(topic)] = "some"]
  ELSE h

\* LoopManager::stop_loop_if_idle, second half: handle.take() and abort()
take_and_abort(h, f) == [h EXCEPT ![f] = "none"]

\* ensure_loop_running spawns every time it is called for a topic of f
spawns_unchecked(h, topic, f) == FamilyOf(topic) = f

\* ensure_loop_running calls spawn_<f>_loop: the topic is of family f and
\* the slot, read under the handle lock, is None
spawns(h, topic, f) == FamilyOf(topic) = f /\ h[f] = "none"

\* the loop tasks after ensure_loop_running(topic)
spawn_loops(h, n, topic) ==
  [f \in Families |-> IF spawns(h, topic, f) THEN n[f] + 1 ELSE n[f]]

\* the loop tasks after the handle of f was taken and aborted
abort_loops(h, n, f) ==
  [n EXCEPT ![f] = IF h[f] = "some" THEN n[f] - 1 ELSE n[f]]

\* subscribe_topics, lines 27-37: the counts, under the registry lock
SubscribeLock(t) ==
  /\ call[t].op = "sub" /\ call[t].stage = "lock"
  /\ active_topics' = SubscribeCounts(active_topics, call[t].args)
  /\ Advance(t, topics_to_start(active_topics, call[t].args))
  /\ UNCHANGED busVars
  /\ UNCHANGED auxVars
  /\ UNCHANGED <<handle, subscriptions, recv_new, recv_abort, n_subscribes>>

\* subscribe_topics, lines 40-44: one ensure_loop_running call
EnsureLoopRunning(t) ==
  /\ call[t].op = "sub" /\ call[t].stage = "loop"
  /\ \E topic \in NextTopics(call[t].todo) :
       /\ handle' = ensure_loop_running(handle, topic)
       /\ loops' = spawn_loops(handle, loops, topic)
       /\ Advance(t, call[t].todo \ {topic})
  /\ UNCHANGED busVars
  /\ UNCHANGED <<authVars, supVars, ctlVars, restVars, cfgVars, lockVars, refreshed, sent>>
  /\ UNCHANGED <<active_topics, subscriptions, recv_new, recv_abort, n_subscribes>>

\* unsubscribe_topics, lines 49-62: the counts, under the registry lock
UnsubscribeLock(t) ==
  /\ call[t].op = "unsub" /\ call[t].stage = "lock"
  /\ active_topics' = UnsubscribeCounts(active_topics, call[t].args)
  /\ Advance(t, topics_to_stop(active_topics, call[t].args))
  /\ UNCHANGED busVars
  /\ UNCHANGED auxVars
  /\ UNCHANGED <<handle, subscriptions, recv_new, recv_abort, n_subscribes>>

\* stop_loop_if_idle, lines 86-125: the registry is read under its lock; the
\* lock is dropped before the handle lock is taken
StopLoopCheck(t) ==
  /\ call[t].op = "unsub" /\ call[t].stage = "loop"
  /\ \E topic \in NextTopics(call[t].todo) :
       IF FamilyOf(topic) \in Families /\ ~has_subs(active_topics, FamilyOf(topic))
       THEN /\ call' = [call EXCEPT ![t] = [op |-> "unsub", stage |-> "take",
                                            args |-> {},
                                            todo |-> call[t].todo \ {topic},
                                            fam |-> FamilyOf(topic)]]
            /\ UNCHANGED pc
       ELSE Advance(t, call[t].todo \ {topic})
  /\ UNCHANGED busVars
  /\ UNCHANGED auxVars
  /\ UNCHANGED <<regVars, subscriptions, recv_new, recv_abort, n_subscribes>>

\* stop_loop_if_idle, lines 127-131: the handle is taken under the handle lock
StopLoopTake(t) ==
  /\ call[t].op = "unsub" /\ call[t].stage = "take"
  /\ handle' = take_and_abort(handle, call[t].fam)
  /\ loops' = abort_loops(handle, loops, call[t].fam)
  /\ Advance(t, call[t].todo)
  /\ UNCHANGED busVars
  /\ UNCHANGED <<authVars, supVars, ctlVars, restVars, cfgVars, lockVars, refreshed, sent>>
  /\ UNCHANGED <<active_topics, subscriptions, recv_new, recv_abort, n_subscribes>>

(***************************************************************************)
(* WebSocket session (ws.rs handle_socket).                                *)
(***************************************************************************)
\* lines 49-165, 168-173: the session starts with no subscription and its two tasks
WsConnect(s) ==
  /\ pc[Main(s)] = "init"
  /\ pc' = [pc EXCEPT ![Main(s)] = "select", ![Recv(s)] = "await", ![Send(s)] = "run"]
  /\ subscriptions' = [subscriptions EXCEPT ![s] = None]
  /\ UNCHANGED busVars
  /\ UNCHANGED auxVars
  /\ UNCHANGED <<regVars, call, recv_new, recv_abort, n_subscribes>>

\* lines 180-200: a Subscribe message: old_subs is cloned, new_set is built.
\* A recv task that was aborted while running goes on with a message that is
\* already buffered, since abort() takes effect only when the task yields.
WsRecvSubscribe(s, topics) ==
  /\ pc[Recv(s)] = "await"
  /\ n_subscribes < MaxSubscribes
  /\ n_subscribes' = n_subscribes + 1
  /\ recv_new' = [recv_new EXCEPT ![s] = NewSet(topics)]
  /\ IF IsSome(subscriptions[s])
     THEN /\ pc' = [pc EXCEPT ![Recv(s)] = "sub_unsub"]
          /\ call' = [call EXCEPT ![Recv(s)] = StartCall("unsub", Unwrap(subscriptions[s]))]
     ELSE /\ pc' = [pc EXCEPT ![Recv(s)] = "sub_sub"]
          /\ call' = [call EXCEPT ![Recv(s)] = StartCall("sub", NewSet(topics))]
  /\ UNCHANGED busVars
  /\ UNCHANGED auxVars
  /\ UNCHANGED <<regVars, subscriptions, recv_abort>>

\* lines 209-212: the local subscription state is replaced
WsRecvStore(s) ==
  /\ pc[Recv(s)] = "sub_store"
  /\ subscriptions' = [subscriptions EXCEPT ![s] = Some(recv_new[s])]
  /\ recv_new' = [recv_new EXCEPT ![s] = {}]
  /\ pc' = [pc EXCEPT ![Recv(s)] = "await"]
  /\ UNCHANGED busVars
  /\ UNCHANGED auxVars
  /\ UNCHANGED <<regVars, call, recv_abort, n_subscribes>>

\* An aborted recv task is dropped when it yields at receiver.next().await;
\* the subscription state, which only this task still referred to, goes with it
WsRecvCancelled(s) ==
  /\ pc[Recv(s)] = "await" /\ recv_abort[s]
  /\ pc' = [pc EXCEPT ![Recv(s)] = "cancelled"]
  /\ recv_abort' = [recv_abort EXCEPT ![s] = FALSE]
  /\ subscriptions' = [subscriptions EXCEPT ![s] = None]
  /\ UNCHANGED busVars
  /\ UNCHANGED auxVars
  /\ UNCHANGED <<regVars, call, recv_new, n_subscribes>>

\* lines 173, 246-251: the stream ends; the recv task takes the subscription
\* and unsubscribes it
WsPeerClose(s) ==
  /\ pc[Recv(s)] = "await"
  /\ subscriptions' = [subscriptions EXCEPT ![s] = take(@)]
  /\ recv_abort' = [recv_abort EXCEPT ![s] = FALSE]
  /\ IF IsSome(subscriptions[s])
     THEN /\ pc' = [pc EXCEPT ![Recv(s)] = "cleanup"]
          /\ call' = [call EXCEPT ![Recv(s)] = StartCall("unsub", Unwrap(subscriptions[s]))]
     ELSE /\ pc' = [pc EXCEPT ![Recv(s)] = "done"]
          /\ UNCHANGED call
  /\ UNCHANGED busVars
  /\ UNCHANGED auxVars
  /\ UNCHANGED <<regVars, recv_new, n_subscribes>>

\* lines 68-76, 112: the send task ends on a write error or a bus error
WsSendEnd(s) ==
  /\ pc[Send(s)] = "run"
  /\ pc' = [pc EXCEPT ![Send(s)] = "done"]
  /\ UNCHANGED busVars
  /\ UNCHANGED auxVars
  /\ UNCHANGED <<regVars, subscriptions, call, recv_new, recv_abort, n_subscribes>>

\* lines 255-267: one task ended; the other is aborted (a running task goes on
\* until it yields), the subscription is taken and unsubscribed
WsSelect(s) ==
  /\ pc[Main(s)] = "select"
  /\ pc[Send(s)] = "done" \/ pc[Recv(s)] = "done"
  /\ recv_abort' = [recv_abort EXCEPT ![s] = pc[Recv(s)] \notin {"await", "done"}]
  /\ subscriptions' = [subscriptions EXCEPT ![s] = take(@)]
  /\ pc' = [pc EXCEPT
              ![Recv(s)] = IF @ = "await" THEN "cancelled" ELSE @,
              ![Send(s)] = "done",
              ![Main(s)] = IF IsSome(subscriptions[s]) THEN "final_unsub" ELSE "returned"]
  /\ call' = [call EXCEPT ![Main(s)] =
                IF IsSome(subscriptions[s])
                THEN StartCall("unsub", Unwrap(subscriptions[s])) ELSE NoCall]
  /\ UNCHANGED busVars
  /\ UNCHANGED auxVars
  /\ UNCHANGED <<regVars, recv_new, n_subscribes>>

(***************************************************************************)
(* SSE session (handlers.rs handle_stream).                                *)
(***************************************************************************)
\* lines 298-313: an admitted request subscribes to "stats" in the handler
SseOpen(e) ==
  /\ pc[Sse(e)] = "init"
  /\ pc' = [pc EXCEPT ![Sse(e)] = "sse_subscribe"]
  /\ call' = [call EXCEPT ![Sse(e)] = StartCall("sub", {"stats"})]
  /\ UNCHANGED busVars
  /\ UNCHANGED auxVars
  /\ UNCHANGED <<regVars, subscriptions, recv_new, recv_abort, n_subscribes>>

\* lines 316-322: the first poll of the stream subscribes to the bus and
\* creates the scope guard
SsePoll(e) ==
  /\ pc[Sse(e)] = "unpolled"
  /\ pc' = [pc EXCEPT ![Sse(e)] = "streaming"]
  /\ UNCHANGED busVars
  /\ UNCHANGED auxVars
  /\ UNCHANGED <<regVars, subscriptions, call, recv_new, recv_abort, n_subscribes>>

\* lines 320-322: the stream is dropped and its guard unsubscribes "stats"
SseDrop(e) ==
  /\ pc[Sse(e)] = "streaming"
  /\ pc' = [pc EXCEPT ![Sse(e)] = "sse_drop"]
  /\ call' = [call EXCEPT ![Sse(e)] = StartCall("unsub", {"stats"})]
  /\ UNCHANGED busVars
  /\ UNCHANGED auxVars
  /\ UNCHANGED <<regVars, subscriptions, recv_new, recv_abort, n_subscribes>>

\* lines 316-322: a stream dropped before its first poll (a HEAD request, a
\* client gone before the body is read) never created the guard
SseDropUnpolled(e) ==
  /\ pc[Sse(e)] = "unpolled"
  /\ pc' = [pc EXCEPT ![Sse(e)] = "closed"]
  /\ UNCHANGED busVars
  /\ UNCHANGED auxVars
  /\ UNCHANGED <<regVars, subscriptions, call, recv_new, recv_abort, n_subscribes>>

Next ==
  \/ \E t \in Tasks : SubscribeLock(t)
  \/ \E t \in Tasks : EnsureLoopRunning(t)
  \/ \E t \in Tasks : UnsubscribeLock(t)
  \/ \E t \in Tasks : StopLoopCheck(t)
  \/ \E t \in Tasks : StopLoopTake(t)
  \/ \E s \in WsIds : WsConnect(s)
  \/ \E s \in WsIds, topics \in Requests : WsRecvSubscribe(s, topics)
  \/ \E s \in WsIds : WsRecvStore(s)
  \/ \E s \in WsIds : WsRecvCancelled(s)
  \/ \E s \in WsIds : WsPeerClose(s)
  \/ \E s \in WsIds : WsSendEnd(s)
  \/ \E s \in WsIds : WsSelect(s)
  \/ \E e \in SseIds : SseOpen(e)
  \/ \E e \in SseIds : SsePoll(e)
  \/ \E e \in SseIds : SseDrop(e)
  \/ \E e \in SseIds : SseDropUnpolled(e)

Spec == Init /\ [][Next]_vars

\* The session's handler is in its select!
WsLive(s) == pc[Main(s)] = "select"

(***************************************************************************)
(* The data path: the stats loop, the broadcast bus and the per-session    *)
(* filters.  Here a handler runs as one step (the interleavings of the     *)
(* registry calls are the subject of Spec above).                          *)
(***************************************************************************)

\* The capacity of the broadcast channel (mod.rs line 477 creates it with
\* 100 slots; the model keeps the drop-oldest behaviour with fewer)
BusCapacity == 1

\* The number of configuration commands in a run
MaxToggles == 1

\* StreamPayload sub-field -> its dotted topic
StatsTopic(X) ==
  CASE X = "cpu" -> "stats.cpu"
    [] X = "memory" -> "stats.memory"
    [] X = "gpu" -> "stats.gpu"
    [] X = "disks" -> "stats.disks"
    [] X = "network" -> "stats.network"

\* spawn_stats_loop, lines 196-216: the mask bit of one sub-field
need(reg, X) ==
  \/ reg[X] > 0
  \/ (X = "network" /\ reg["net"] > 0)
  \/ reg[StatsTopic(X)] > 0
  \/ reg["stats"] > 0

DemandMask(reg) == {X \in StatsSubFields : need(reg, X)}

\* get_or_update_gpu_stats: whether a sample is returned, and the cache after.
\* fresh: the cached sample is younger than the cache time; probe: get_gpu_stats
\* returns a sample
get_or_update_gpu_stats(enabled, cache, fresh, probe) ==
  IF ~enabled THEN [value |-> FALSE, cache |-> cache]
  ELSE IF cache /\ fresh THEN [value |-> TRUE, cache |-> cache]
  ELSE IF probe THEN [value |-> TRUE, cache |-> TRUE]
  ELSE [value |-> cache, cache |-> cache]

\* get_or_update_gpu_stats runs the GPU probe: GPU stats are enabled and no
\* fresh sample is cached
gpu_probed(enabled, cache, fresh) == enabled /\ ~(cache /\ fresh)

\* every sampler is refreshed whatever the mask
refresh_all_samplers(mask, probed) == StatsSubFields

\* mod.rs lines 224-235, 260-287: refresh_cpu, refresh_memory,
\* networks.refresh and disks.refresh_list run under their need_ flag, the
\* GPU probe under need_gpu inside get_or_update_gpu_stats
refresh_samplers(mask, probed) == {X \in mask : X # "gpu" \/ probed}

StreamPayloadAll(mask, gpu) == {X \in StatsSubFields : X # "gpu" \/ gpu}

\* spawn_stats_loop, lines 237-309: the sub-fields that are Some
StreamPayload(mask, gpu) == {X \in mask : X # "gpu" \/ gpu}

\* ws.rs lines 87-91
covers(topics, X) == X \in topics \/ StatsTopic(X) \in topics \/ "stats" \in topics

\* ws.rs lines 85, 93-97
has_content(topics) == \E X \in StatsSubFields : covers(topics, X)

\* ws.rs lines 93-97: the sub-fields left in the filtered payload
filtered(topics, payload) == {X \in payload : covers(topics, X)}

\* a filter that writes a frame for every system_stats event
msg_opt_unguarded(subs, payload) ==
  Some(filtered(IF IsSome(subs) THEN Unwrap(subs) ELSE {}, payload))

\* ws.rs lines 81-108
msg_opt(subs, payload) ==
  IF IsSome(subs)
  THEN IF has_content(Unwrap(subs)) \/ "system" \in Unwrap(subs)
       THEN Some(filtered(Unwrap(subs), payload))
       ELSE None
  ELSE None

\* handlers.rs lines 329-336
\* the stream forwards the payload as it is
unfiltered_payload(fields_set, payload) == payload

filtered_payload(fields_set, payload) ==
  IF fields_set # {} THEN payload \cap fields_set ELSE payload

\* The events of the bus (types.rs BroadcastEvent)
SystemStats(payload) == [type |-> "system_stats", payload |-> payload]
MediaUpdate(media) == [type |-> "media_update", media |-> media]
ProcessList == [type |-> "process_list"]

\* send task, lines 117-160: an event of the media family goes to a session
\* subscribed to media or stats.media, one of the processes family to a
\* session subscribed to processes or process
should_send(subs, ev) ==
  /\ IsSome(subs)
  /\ CASE ev.type \in {"media_update", "media_feedback"} ->
            "media" \in Unwrap(subs) \/ "stats.media" \in Unwrap(subs)
       [] ev.type \in {"process_list", "process_feedback"} ->
            "processes" \in Unwrap(subs) \/ "process" \in Unwrap(subs)
       [] OTHER -> FALSE

\* send task, lines 78-160: the frame written for an event, if any
ws_frame(subs, ev) ==
  IF ev.type = "system_stats"
  THEN IF IsSome(msg_opt(subs, ev.payload))
       THEN Some(SystemStats(Unwrap(msg_opt(subs, ev.payload))))
       ELSE None
  ELSE IF should_send(subs, ev) THEN Some(ev) ELSE None

\* A receiver exists from broadcast_tx.subscribe() until it is dropped
RxOpen(r) ==
  \/ r[1] = "main" /\ pc[r] = "select"
  \/ r[1] = "sse" /\ pc[r] = "streaming"

receiver_count == Cardinality({r \in Receivers : RxOpen(r)})

\* The last n events of a sequence
Last(seq, n) == SubSeq(seq, Len(seq) - n + 1, Len(seq))

\* The channel keeps an event until every receiver has read it
Retain(seq, b) ==
  LET n == CHOOSE k \in 0..BusCapacity :
             (\A r \in Receivers : b[r] <= k) /\ (k = 0 \/ \E r \in Receivers : b[r] = k)
  IN Last(seq, n)

\* The next event of receiver r
NextEvent(r) == bus[Len(bus) - behind[r] + 1]

\* broadcast send: every receiver gets the event; one that is already
\* BusCapacity events behind loses its oldest and is marked lagged
BusSend(ev) ==
  LET b == [r \in Receivers |->
              IF ~RxOpen(r) THEN 0
              ELSE IF behind[r] = BusCapacity THEN BusCapacity ELSE behind[r] + 1]
  IN /\ behind' = b
     /\ bus' = Retain(Append(bus, ev), b)
     /\ lagged' = [r \in Receivers |->
                     lagged[r] \/ (RxOpen(r) /\ behind[r] = BusCapacity)]

\* recv: receiver r takes its next event
BusRecv(r) ==
  LET b == [behind EXCEPT ![r] = @ - 1]
  IN /\ behind' = b
     /\ bus' = Retain(bus, b)

\* Receiver r is dropped
BusClose(r) ==
  LET b == [behind EXCEPT ![r] = 0]
  IN /\ behind' = b
     /\ bus' = Retain(bus, b)
     /\ lagged' = [lagged EXCEPT ![r] = FALSE]

RECURSIVE EnsureAll(_, _)
\* subscribe_topics, lines 40-44
EnsureAll(h, todo) ==
  IF todo = {} THEN h
  ELSE LET t == CHOOSE x \in todo : TRUE
       IN EnsureAll(ensure_loop_running(h, t), todo \ {t})

\* stop_loop_if_idle run without interruption
stop_loop_if_idle(reg, h, topic) ==
  IF FamilyOf(topic) \in Families /\ ~has_subs(reg, FamilyOf(topic))
  THEN take_and_abort(h, FamilyOf(topic))
  ELSE h

RECURSIVE StopAll(_, _, _)
\* unsubscribe_topics, lines 63-67
StopAll(reg, h, todo) ==
  IF todo = {} THEN h
  ELSE LET t == CHOOSE x \in todo : TRUE
       IN StopAll(reg, stop_loop_if_idle(reg, h, t), todo \ {t})

\* subscribe_topics / unsubscribe_topics run without interruption
subscribe_topics(st, topics) ==
  [reg |-> SubscribeCounts(st.reg, topics),
   h |-> EnsureAll(st.h, topics_to_start(st.reg, topics))]

unsubscribe_topics(st, topics) ==
  [reg |-> UnsubscribeCounts(st.reg, topics),
   h |-> StopAll(UnsubscribeCounts(st.reg, topics), st.h, topics_to_stop(st.reg, topics))]

Registry == [reg |-> active_topics, h |-> handle]

\* The stats loop task after the handle went over h1 to h2: an abort
\* ends it, a spawn starts one in its first run
LoopAfter(h1, h2) ==
  IF h1["stats"] = "none"
  THEN IF h2["stats"] = "some" THEN "first" ELSE "none"
  ELSE stats_loop

\* abort() ends a task when the task next yields: a task that is polled,
\* between the return of its sleep and its send, runs on to its next await
InBody(f) == f = "stats" /\ stats_loop = "body"

\* The same for the media and processes loop tasks
FamLoopAfter(f, cur, h1, h2) ==
  IF h1[f] = "none"
  THEN IF h2[f] = "some" THEN "first" ELSE "none"
  ELSE cur

SetRegistry(st1, st2) ==
  /\ active_topics' = st2.reg
  /\ handle' = st2.h
  /\ stats_loop' = LoopAfter(st1.h, st2.h)
  /\ media_loop' = FamLoopAfter("media", media_loop, st1.h, st2.h)
  /\ processes_loop' = FamLoopAfter("processes", processes_loop, st1.h, st2.h)
  /\ last_status' = IF st1.h["media"] = "none" THEN None ELSE last_status
  /\ loop_interval' = [f \in Families |->
                         IF st1.h[f] = "none" THEN None ELSE loop_interval[f]]
  /\ aborted' = [f \in Families |->
                   IF st1.h[f] = "none" /\ InBody(f) THEN TRUE ELSE aborted[f]]

\* The subscribe messages and the fields parameters of the data path
BusRequests == {<<"CPU">>, <<"gpu", "NET">>, <<"system">>}
FieldsParams == {{}, {"cpu"}}

\* handle_socket, lines 50-58
BusWsConnect(s) ==
  /\ pc[Main(s)] = "init"
  /\ pc' = [pc EXCEPT ![Main(s)] = "select", ![Recv(s)] = "await", ![Send(s)] = "run"]
  /\ UNCHANGED <<regVars, subscriptions, call, recv_new, recv_abort, n_subscribes>>
  /\ UNCHANGED busVars
  /\ UNCHANGED auxVars

\* recv task, Subscribe message (ws.rs lines 180-213)
BusWsSubscribe(s, topics) ==
  /\ WsLive(s)
  /\ pc[Recv(s)] = "await"
  /\ n_subscribes < MaxSubscribes
  /\ n_subscribes' = n_subscribes + 1
  /\ LET new_set == NewSet(topics)
         st1 == IF IsSome(subscriptions[s])
                THEN unsubscribe_topics(Registry, Unwrap(subscriptions[s]))
                ELSE Registry
         st2 == subscribe_topics(st1, new_set)
     IN /\ SetRegistry(st1, st2)
        /\ subscriptions' = [subscriptions EXCEPT ![s] = Some(new_set)]
  /\ UNCHANGED <<pc, call, recv_new, recv_abort>>
  /\ UNCHANGED <<stats_enabled, gpu_enabled, gpu_cache, bus, behind, lagged,
                 sse_fields, delivered>>
  /\ UNCHANGED <<n_toggles, auxVars>>

\* The end of a WS session: one task ends, the other is aborted, the
\* subscription set is taken and its topics are released (ws.rs lines
\* 246-251, 255-267); the receiver is dropped with the send task
WsTeardown(s) ==
  /\ LET st1 == IF IsSome(subscriptions[s])
                THEN unsubscribe_topics(Registry, Unwrap(subscriptions[s]))
                ELSE Registry
     IN SetRegistry(st1, st1)
  /\ subscriptions' = [subscriptions EXCEPT ![s] = None]
  /\ pc' = [pc EXCEPT ![Main(s)] = "returned", ![Recv(s)] = "done", ![Send(s)] = "done"]
  /\ BusClose(Main(s))
  /\ UNCHANGED <<call, recv_new, recv_abort, n_subscribes>>
  /\ UNCHANGED <<stats_enabled, gpu_enabled, gpu_cache, sse_fields, delivered>>
  /\ mailbox' = [mailbox EXCEPT ![s] = << >>]
  /\ UNCHANGED <<n_toggles, extVars, authVars, supVars, features, n_commands>>

\* recv task: the peer closes or the socket fails (ws.rs lines 173, 246-251)
BusWsPeerClose(s) ==
  /\ WsLive(s)
  /\ pc[Recv(s)] = "await"
  /\ WsTeardown(s)

\* send task: rx.recv() returns an event (ws.rs lines 73-115); ok is the
\* outcome of sender.send
BusWsSendEvent(s, ok) ==
  /\ WsLive(s)
  /\ ~lagged[Main(s)]
  /\ behind[Main(s)] > 0
  /\ LET out == ws_frame(subscriptions[s], NextEvent(Main(s)))
     IN IF IsSome(out) /\ ~ok
        THEN WsTeardown(s)
        ELSE /\ ok
             /\ delivered' = IF IsSome(out)
                             THEN Some([to |-> Main(s), frame |-> Unwrap(out)])
                             ELSE delivered
             /\ BusRecv(Main(s))
             /\ UNCHANGED <<regVars, sessVars>>
             /\ UNCHANGED <<stats_loop, famVars, stats_enabled, gpu_enabled, gpu_cache, lagged,
                            sse_fields, n_toggles, auxVars>>

\* send task: rx.recv() returns Err (ws.rs lines 74-77): the loop breaks
BusWsSendLagged(s) ==
  /\ WsLive(s)
  /\ lagged[Main(s)]
  /\ WsTeardown(s)

\* handle_stream, lines 298-313
BusSseOpen(e, fields_set) ==
  /\ pc[Sse(e)] = "init"
  /\ IF ~features.enable_stream
     THEN UNCHANGED <<pc, sse_fields, regVars, stats_loop, famVars>>
     ELSE /\ pc' = [pc EXCEPT ![Sse(e)] = "unpolled"]
          /\ sse_fields' = [sse_fields EXCEPT ![e] = fields_set]
          /\ SetRegistry(Registry, subscribe_topics(Registry, {"stats"}))
  /\ UNCHANGED <<subscriptions, call, recv_new, recv_abort, n_subscribes>>
  /\ UNCHANGED <<stats_enabled, gpu_enabled, gpu_cache, bus, behind, lagged, delivered>>
  /\ UNCHANGED <<n_toggles, auxVars>>

\* handle_stream, lines 317-322: the first poll of the stream
BusSsePoll(e) ==
  /\ pc[Sse(e)] = "unpolled"
  /\ pc' = [pc EXCEPT ![Sse(e)] = "streaming"]
  /\ UNCHANGED <<regVars, subscriptions, call, recv_new, recv_abort, n_subscribes>>
  /\ UNCHANGED busVars
  /\ UNCHANGED auxVars

\* handle_stream, lines 325-339
BusSseRecv(e) ==
  /\ pc[Sse(e)] = "streaming"
  /\ ~lagged[Sse(e)]
  /\ behind[Sse(e)] > 0
  /\ delivered' = IF NextEvent(Sse(e)).type = "system_stats"
                  THEN Some([to |-> Sse(e),
                             frame |-> SystemStats(filtered_payload(sse_fields[e],
                                                     NextEvent(Sse(e)).payload))])
                  ELSE delivered
  /\ BusRecv(Sse(e))
  /\ UNCHANGED <<regVars, sessVars>>
  /\ UNCHANGED <<stats_loop, famVars, stats_enabled, gpu_enabled, gpu_cache, lagged, sse_fields>>
  /\ UNCHANGED <<n_toggles, auxVars>>

\* handle_stream, lines 348-350
BusSseLagged(e) ==
  /\ pc[Sse(e)] = "streaming"
  /\ lagged[Sse(e)]
  /\ lagged' = [lagged EXCEPT ![Sse(e)] = FALSE]
  /\ UNCHANGED <<regVars, sessVars>>
  /\ UNCHANGED <<stats_loop, famVars, stats_enabled, gpu_enabled, gpu_cache, bus, behind,
                 sse_fields, delivered>>
  /\ UNCHANGED <<n_toggles, auxVars>>

\* The stream is dropped after its first poll: the guard runs (lines 320-322)
BusSseDrop(e) ==
  /\ pc[Sse(e)] = "streaming"
  /\ pc' = [pc EXCEPT ![Sse(e)] = "closed"]
  /\ LET st1 == unsubscribe_topics(Registry, {"stats"})
     IN SetRegistry(st1, st1)
  /\ BusClose(Sse(e))
  /\ sse_fields' = [sse_fields EXCEPT ![e] = {}]
  /\ UNCHANGED <<subscriptions, call, recv_new, recv_abort, n_subscribes>>
  /\ UNCHANGED <<stats_enabled, gpu_enabled, gpu_cache, delivered>>
  /\ UNCHANGED <<n_toggles, auxVars>>

\* The stream is dropped before its first poll: no guard exists yet, and
\* the closure goes with its fields_set
BusSseDropUnpolled(e) ==
  /\ pc[Sse(e)] = "unpolled"
  /\ pc' = [pc EXCEPT ![Sse(e)] = "closed"]
  /\ sse_fields' = [sse_fields EXCEPT ![e] = {}]
  /\ UNCHANGED <<regVars, subscriptions, call, recv_new, recv_abort, n_subscribes>>
  /\ UNCHANGED <<stats_loop, famVars, stats_enabled, gpu_enabled, gpu_cache, bus, behind, lagged,
                 delivered>>
  /\ UNCHANGED <<n_toggles, auxVars>>

\* a loop that reads interval_ms when it is spawned and keeps it
interval_kept(local, configured) == IF IsSome(local) THEN Unwrap(local) ELSE configured

\* Read interval from config each iteration (mod.rs lines 170-176, 328-334,
\* 395-401): the value the iteration sleeps for is the configured one
interval_read(local, configured) == configured

\* One iteration of the stats loop (spawn_stats_loop, lines 168-315), from
\* the read of the config to the send; a loop past its first run sleeps first
StatsLoopRun(fresh, probe) ==
  /\ stats_loop \in {"first", "sleeping"}
  /\ IF ~stats_enabled
     THEN /\ stats_loop' = "exited"
          /\ loop_interval' = [loop_interval EXCEPT !["stats"] = None]
          /\ refreshed' = {}
          /\ sent' = None
          /\ UNCHANGED <<gpu_cache, bus, behind, lagged>>
     ELSE /\ stats_loop' = "sleeping"
          /\ loop_interval' = [loop_interval EXCEPT !["stats"] = Some(interval_read(loop_interval["stats"], ws_interval["stats"]))]
          /\ IF receiver_count = 0 \/ DemandMask(active_topics) = {}
             THEN /\ refreshed' = {}
                  /\ sent' = None
                  /\ UNCHANGED <<gpu_cache, bus, behind, lagged>>
             ELSE LET mask == DemandMask(active_topics)
                      gpu == get_or_update_gpu_stats(gpu_enabled, gpu_cache, fresh, probe)
                      payload == StreamPayload(mask, gpu.value)
                  IN /\ gpu_cache' = IF "gpu" \in mask THEN gpu.cache ELSE gpu_cache
                     /\ refreshed' = refresh_samplers(mask, gpu_probed(gpu_enabled, gpu_cache, fresh))
                     /\ sent' = Some(SystemStats(payload))
                     /\ BusSend(SystemStats(payload))
  /\ UNCHANGED <<regVars, sessVars>>
  /\ UNCHANGED <<media_loop, processes_loop, last_status, aborted, stats_enabled, gpu_enabled,
                 sse_fields, delivered>>
  /\ UNCHANGED <<n_toggles, authVars, supVars, ctlVars, restVars, cfgVars, lockVars, loops>>

\* toggle_ws_topic("stats") (lib.rs lines 199-215)
ToggleWsTopic ==
  /\ n_toggles < MaxToggles
  /\ n_toggles' = n_toggles + 1
  /\ stats_enabled' = ~stats_enabled
  /\ UNCHANGED <<regVars, sessVars, auxVars>>
  /\ UNCHANGED <<stats_loop, famVars, gpu_enabled, gpu_cache, bus, behind, lagged, sse_fields,
                 delivered>>

\* toggle_gpu_stats (lib.rs lines 392-400)
ToggleGpuStats ==
  /\ n_toggles < MaxToggles
  /\ n_toggles' = n_toggles + 1
  /\ gpu_enabled' = ~gpu_enabled
  /\ UNCHANGED <<regVars, sessVars, auxVars>>
  /\ UNCHANGED <<stats_loop, famVars, stats_enabled, gpu_cache, bus, behind, lagged, sse_fields,
                 delivered>>

NextBus ==
  \/ \E s \in WsIds : BusWsConnect(s)
  \/ \E s \in WsIds : \E topics \in BusRequests : BusWsSubscribe(s, topics)
  \/ \E s \in WsIds : BusWsSendLagged(s)
  \/ \E s \in WsIds : \E ok \in BOOLEAN : BusWsSendEvent(s, ok)
  \/ \E s \in WsIds : BusWsPeerClose(s)
  \/ \E e \in SseIds : \E fields_set \in FieldsParams : BusSseOpen(e, fields_set)
  \/ \E e \in SseIds : BusSsePoll(e)
  \/ \E e \in SseIds : BusSseRecv(e)
  \/ \E e \in SseIds : BusSseLagged(e)
  \/ \E e \in SseIds : BusSseDrop(e)
  \/ \E e \in SseIds : BusSseDropUnpolled(e)
  \/ \E fresh \in BOOLEAN : \E probe \in BOOLEAN : StatsLoopRun(fresh, probe)
  \/ ToggleWsTopic
  \/ ToggleGpuStats

SpecBus == Init /\ [][NextBus]_vars

(***************************************************************************)
(* Properties of the registry, the LoopManager and the session life cycle  *)
(* (checked under Spec).                                                   *)
(***************************************************************************)
SseLive(e) == pc[Sse(e)] \in {"unpolled", "streaming"}

\* The live sessions whose current subscription set contains topic t
Holders(t) ==
  Cardinality({s \in WsIds : WsLive(s) /\ IsSome(subscriptions[s])
                             /\ t \in Unwrap(subscriptions[s])})
  + Cardinality({e \in SseIds : SseLive(e) /\ t = "stats"})

NoCallInProgress == \A t \in Tasks : call[t].op = "none"

\* No subscribe, unsubscribe or cleanup step is in progress or pending
Quiescent ==
  /\ NoCallInProgress
  /\ \A s \in WsIds :
       /\ pc[Recv(s)] \in {"init", "await", "done", "cancelled"}
       /\ ~recv_abort[s]
       /\ pc[Main(s)] \in {"init", "select", "returned"}
       /\ pc[Main(s)] = "select" => pc[Recv(s)] = "await" /\ pc[Send(s)] = "run"
  /\ \A e \in SseIds : pc[Sse(e)] \in {"init", "unpolled", "streaming", "closed"}

\* Every session that ever connected is gone and all its tasks have stopped
AllWsGone ==
  \A s \in WsIds : /\ pc[Main(s)] \in {"init", "returned"}
                   /\ pc[Recv(s)] \in {"init", "done", "cancelled"}
AllSseGone == \A e \in SseIds : pc[Sse(e)] \in {"init", "closed"}

\* C1: at every quiescent point the count of each topic equals the number
\* of live sessions whose subscription set contains the topic (and is >= 0).
C1_RefcountConservation ==
  Quiescent => \A t \in Topics : active_topics[t] >= 0 /\ active_topics[t] = Holders(t)

\* C2: whenever no subscribe_topics or unsubscribe_topics call is in progress,
\* a family has a loop handle if and only if one of its topics has a count > 0.
C2_LoopIffDemand ==
  NoCallInProgress =>
    \A f \in Families : (handle[f] = "some") <=> has_subs(active_topics, f)

\* C3: no lost wake-up across a subscribe of one session and an unsubscribe
\* of another: with every WebSocket session intact (no task of it has ended)
\* and all calls returned, a family whose total count is > 0 has its handle.
C3_NoLostWakeup ==
  (NoCallInProgress /\ \A s \in WsIds : pc[Send(s)] \in {"init", "run"}
                                        /\ pc[Recv(s)] \in {"init", "await"})
    => \A f \in Families : has_subs(active_topics, f) => handle[f] = "some"

\* C4: once the WebSocket session handlers have returned and their tasks have
\* stopped (no SSE stream was ever opened), the sessions contribute to no count.
C4_CleanupExactlyOnce ==
  (AllWsGone /\ NoCallInProgress /\ \A e \in SseIds : pc[Sse(e)] = "init")
    => \A t \in Topics : active_topics[t] = 0

\* C5: with no WebSocket or SSE session connected (and no task of a past
\* session still running) no family has a loop handle.
C5_ZeroDemandQuiescence ==
  (AllWsGone /\ AllSseGone /\ NoCallInProgress)
    => \A f \in Families : handle[f] = "none"

\* C10: a subscribe replaces the whole set: its unsubscribe step decrements
\* every topic of the previous set by one, its subscribe step increments every
\* topic of the new set by one, and the stored set is the expansion of the
\* lower-cased topic list.
C10_SubscribeReplacesSet ==
  [][\A s \in WsIds :
       /\ (pc[Recv(s)] = "sub_unsub" /\ UnsubscribeLock(Recv(s)))
            => \A t \in call[Recv(s)].args : active_topics'[t] = active_topics[t] - 1
       /\ (pc[Recv(s)] = "sub_sub" /\ SubscribeLock(Recv(s)))
            => \A t \in call[Recv(s)].args : active_topics'[t] = active_topics[t] + 1
       /\ WsRecvStore(s) => subscriptions'[s] = Some(recv_new[s])]_vars

(***************************************************************************)
(* Properties of the data path                                             *)
(***************************************************************************)

\* The next iteration of the stats loop sends an event
Publishing ==
  /\ stats_loop \in {"first", "sleeping"}
  /\ stats_enabled
  /\ receiver_count # 0
  /\ DemandMask(active_topics) # {}

\* A step of the stats loop that sends an event
PublishStep == Publishing /\ \E fresh \in BOOLEAN : \E probe \in BOOLEAN : StatsLoopRun(fresh, probe)

\* The event sent by a PublishStep
Published == bus'[Len(bus')].payload

\* C6: a session that subscribes to stats demand gets its first event from
\* a sampling step that is not preceded by a sleep, whether or not the stats
\* loop was already running: after the subscribe the loop is in its first
\* run (the only iteration that samples without sleeping), unless it has
\* exited and sends nothing at all
C6_InstantFirstDelivery ==
  [][\A s \in WsIds : \A topics \in BusRequests :
       (BusWsSubscribe(s, topics) /\ has_content(NewSet(topics)) /\ stats_loop' # "exited")
         => stats_loop' = "first"]_vars

\* C7: in every system_stats frame written to a WS session, a sub-field is
\* present iff the session's subscription set covers it, and the frame is
\* written only if a sub-field remains in it or the set contains system
C7_ProjectionCorrectness ==
  [][\A s \in WsIds :
       (BusWsSendEvent(s, TRUE) /\ IsSome(msg_opt(subscriptions[s], NextEvent(Main(s)).payload)))
         => LET f == Unwrap(delivered').frame.payload
                topics == Unwrap(subscriptions[s])
            IN /\ delivered' = Some([to |-> Main(s), frame |-> SystemStats(f)])
               /\ \A X \in StatsSubFields :
                    X \in f <=> (X \in topics \/ StatsTopic(X) \in topics \/ "stats" \in topics)
               /\ (f # {} \/ "system" \in topics)]_vars

\* C8 as stated: every published event has sub-field X iff count(X) > 0 or
\* count(stats.X) > 0 or count(stats) > 0 when the loop read the registry,
\* also when a sampler yields no value
C8_MaskExactness ==
  [][PublishStep =>
       \A X \in StatsSubFields :
         X \in Published <=> (active_topics[X] > 0 \/ active_topics[StatsTopic(X)] > 0
                                \/ active_topics["stats"] > 0)]_vars

\* C8 amended: every published event has cpu, memory, disks, network iff the
\* counts demand it; gpu is present only if the counts demand it and GPU
\* stats are enabled, and is present whenever they do and a sample is cached
C8_MaskExactnessAmended ==
  [][PublishStep =>
       /\ \A X \in StatsSubFields \ {"gpu"} :
            X \in Published <=> (active_topics[X] > 0 \/ active_topics[StatsTopic(X)] > 0
                                   \/ active_topics["stats"] > 0)
       /\ "gpu" \in Published =>
            /\ active_topics["gpu"] > 0 \/ active_topics["stats.gpu"] > 0
                 \/ active_topics["stats"] > 0
            /\ gpu_enabled
       /\ ( /\ active_topics["gpu"] > 0 \/ active_topics["stats.gpu"] > 0
                 \/ active_topics["stats"] > 0
            /\ gpu_enabled /\ gpu_cache ) => "gpu" \in Published]_vars

\* C8 witness: an event with network but without gpu is on the bus while gpu
\* is demanded (every demand for network in the model is also one for gpu)
C8_Witness ==
  /\ bus # << >>
  /\ "network" \in bus[Len(bus)].payload
  /\ "gpu" \notin bus[Len(bus)].payload
  /\ active_topics["gpu"] > 0
  /\ stats_loop = "sleeping"

\* C9: a session whose receiver reports Lagged keeps running: the step that
\* handles the signal leaves the session open and its subscriptions registered
C9_LaggedKeepsRunning ==
  [][/\ \A s \in WsIds :
          BusWsSendLagged(s) => /\ pc'[Main(s)] = "select"
                                /\ subscriptions'[s] = subscriptions[s]
                                /\ active_topics' = active_topics
     /\ \A e \in SseIds :
          BusSseLagged(e) => /\ pc'[Sse(e)] = "streaming"
                             /\ active_topics' = active_topics]_vars

(***************************************************************************)
(* Properties of the session cleanups (checked under Spec)                 *)
(***************************************************************************)

\* C11: the stats count an /api/stream request incremented is decremented
\* exactly once when the client disconnects, at whatever point, and not while
\* the stream is open: with no WebSocket session and no call in progress,
\* count(stats) is the number of streams that are still open
C11_SseDecrementOnce ==
  (NoCallInProgress /\ \A s \in WsIds : pc[Main(s)] = "init")
    => active_topics["stats"] = Cardinality({e \in SseIds : SseLive(e)})

\* C12: the cleanup of a WebSocket session run a second time, by
\* handle_socket after the recv task has run it, finds the subscription
\* absent and leaves every count and every loop handle unchanged
C12_CleanupIdempotent ==
  [][\A s \in WsIds :
       (pc[Recv(s)] = "done" /\ WsSelect(s))
         => /\ subscriptions[s] = None
            /\ call'[Main(s)] = NoCall
            /\ pc'[Main(s)] = "returned"
            /\ active_topics' = active_topics
            /\ handle' = handle]_vars

\* C12 witness: a session that had subscribed was closed by its peer, both
\* cleanups have run and every count is back at 0
C12_Witness ==
  \E s \in WsIds :
    /\ pc[Main(s)] = "returned" /\ pc[Recv(s)] = "done"
    /\ n_subscribes > 0
    /\ \A s2 \in WsIds \ {s} : pc[Main(s2)] = "init"
    /\ \A e \in SseIds : pc[Sse(e)] = "init"
    /\ \A t \in Topics : active_topics[t] = 0
    /\ \A f \in Families : handle[f] = "none"

(***************************************************************************)
(* Further properties of the data path (checked under SpecBus)             *)
(***************************************************************************)

\* C13: the first system_stats frame sent to a session after its subscribe
\* was built from a mask read at or after the increments of that subscribe.
\* The send task takes the pending events of its receiver in order, so the
\* claim says that when a subscribe has been processed no event published
\* before it is pending in a form the send task turns into a frame
C13_SubscribeThenReceiveCausal ==
  [][\A s \in WsIds : \A topics \in BusRequests :
       (BusWsSubscribe(s, topics) /\ behind[Main(s)] > 0 /\ ~lagged[Main(s)])
         => ~IsSome(msg_opt(subscriptions'[s], NextEvent(Main(s)).payload))]_vars


(***************************************************************************)
(* The auth middleware (server/mod.rs).  It is a pure function of the auth *)
(* configuration and of the request, so SpecAuth draws a configuration at  *)
(* Init, lets one request arrive and applies the middleware to it.         *)
(*                                                                         *)
(* An address is its family and its octets.  A list entry is the text of   *)
(* the configuration file as the code takes it apart: the part before the  *)
(* '/' (the whole entry when there is none) parsed as an address, None     *)
(* when it does not parse, and the number after the '/', None when there   *)
(* is no '/'.  Entries without '/' are written in the canonical form that  *)
(* to_string produces, so comparing texts is comparing addresses.          *)
(***************************************************************************)
V4(a, b, c, d) == [fam |-> "V4", octets |-> <<a, b, c, d>>]

V6(o1, o2, o9, o16) ==
  [fam |-> "V6",
   octets |-> [i \in 1..16 |-> CASE i = 1 -> o1 [] i = 2 -> o2 [] i = 9 -> o9
                                 [] i = 16 -> o16 [] OTHER -> 0]]

Exact(a) == [network |-> Some(a), prefix |-> None]
Cidr(a, n) == [network |-> Some(a), prefix |-> Some(n)]
Unparsable(n) == [network |-> None, prefix |-> Some(n)]

Width(fam) == IF fam = "V4" THEN 32 ELSE 128

\* the bytes read least significant first
from_le_bytes(octets) ==
  LET n == Len(octets)
  IN [i \in 1..(8 * n) |->
        (octets[n - ((i - 1) \div 8)] \div (2 ^ (7 - ((i - 1) % 8)))) % 2]

\* u32::from_be_bytes, u128::from_be_bytes: the bits of the integer, the
\* most significant first
from_be_bytes(octets) ==
  [i \in 1..(8 * Len(octets)) |->
     (octets[((i - 1) \div 8) + 1] \div (2 ^ (7 - ((i - 1) % 8)))) % 2]

\* !0u32, !0u128
AllOnes(w) == [i \in 1..w |-> 1]

\* bits << k for 0 <= k < w
Shl(bits, w, k) == [i \in 1..w |-> IF i + k <= w THEN bits[i + k] ELSE 0]

\* a & b
BitAnd(a, b, w) == [i \in 1..w |-> a[i] * b[i]]

\* let mask = if prefix_len == 0 { 0 } else { !0 << (w - prefix_len) }
cidr_mask(w, prefix_len) ==
  IF prefix_len = 0 THEN [i \in 1..w |-> 0] ELSE Shl(AllOnes(w), w, w - prefix_len)

ip_matches_cidr(client, network, prefix_len) ==
  IF client.fam = network.fam
  THEN LET w == Width(client.fam)
       IN IF prefix_len > w
          THEN FALSE
          ELSE LET mask == cidr_mask(w, prefix_len)
                   c_bits == from_be_bytes(client.octets)
                   n_bits == from_be_bytes(network.octets)
               IN BitAnd(c_bits, mask, w) = BitAnd(n_bits, mask, w)
  ELSE FALSE

\* prefix_len.parse::<u8>() succeeds
parses_u8(n) == n >= 0 /\ n <= 255

\* the list matched by equal text only
is_ip_in_list_exact(client, list) ==
  \E i \in 1..Len(list) : list[i].prefix = None /\ list[i].network = Some(client)

is_ip_in_list(client, list) ==
  \E i \in 1..Len(list) :
    LET entry == list[i]
    IN \/ entry.prefix = None /\ entry.network = Some(client)
       \/ /\ IsSome(entry.prefix)
          /\ IsSome(entry.network)
          /\ parses_u8(Unwrap(entry.prefix))
          /\ ip_matches_cidr(client, Unwrap(entry.network), Unwrap(entry.prefix))

\* h.strip_prefix("Bearer "): a header value is its first seven characters
\* and the rest
strip_prefix(h, p) == IF h.scheme = p THEN Some(h.rest) ELSE None

\* every path takes the query parameter
any_endpoint(req) == TRUE

is_ws_endpoint(req) == req.path = "/api/ws"

\* the loop over query.split('&'): a parameter is its text up to and
\* including '=' and the rest
query_has_key(req, required_key) ==
  /\ IsSome(req.query)
  /\ \E i \in 1..Len(Unwrap(req.query)) :
       LET param == Unwrap(req.query)[i]
       IN param.name = "api_key=" /\ param.value = required_key

\* the answer of the middleware: "next" is next.run(req)
auth_middleware(cfg, req) ==
  IF cfg.blocked_ips # << >> /\ is_ip_in_list(req.ip, cfg.blocked_ips)
  THEN "403"
  ELSE IF ~cfg.enabled
  THEN "next"
  ELSE IF is_ip_in_list(req.ip, cfg.allowed_ips)
  THEN "next"
  ELSE IF cfg.api_key = None
  THEN "next"
  ELSE LET required_key == Unwrap(cfg.api_key)
           auth_header == IF IsSome(req.header)
                          THEN strip_prefix(Unwrap(req.header), "Bearer ")
                          ELSE None
       IN IF IsSome(auth_header) /\ Unwrap(auth_header) = required_key
          THEN "next"
          ELSE IF is_ws_endpoint(req) /\ query_has_key(req, required_key)
          THEN "next"
          ELSE "401"

\* The inputs of the model
Lan1 == V4(10, 0, 0, 1)
Lan77 == V4(10, 0, 0, 77)
Lan256 == V4(10, 0, 1, 1)
Wan == V4(138, 0, 0, 1)
Link1 == V6(254, 128, 0, 1)
LinkFar == V6(254, 128, 128, 1)

ClientIps == {Lan1, Lan77, Lan256, Wan, Link1, LinkFar}

BlockedLists ==
  {<< >>, <<Exact(Lan1)>>, <<Cidr(Lan1, 24)>>, <<Cidr(Lan1, 0)>>, <<Cidr(Lan1, 1)>>,
   <<Cidr(Lan1, 32)>>, <<Cidr(Lan1, 33)>>, <<Cidr(Lan1, 256)>>,
   <<Cidr(Link1, 64)>>, <<Cidr(Link1, 65)>>, <<Cidr(Link1, 128)>>,
   <<Cidr(Link1, 129)>>, <<Cidr(Link1, 0)>>, <<Unparsable(8), Exact(Lan256)>>}

AllowedLists ==
  {<< >>, <<Exact(Lan77)>>, <<Cidr(Lan1, 24)>>, <<Cidr(Link1, 64), Exact(Wan)>>}

AuthConfigs ==
  [enabled : BOOLEAN, api_key : {None, Some("k")},
   allowed_ips : AllowedLists, blocked_ips : BlockedLists]

Headers ==
  {None, Some([scheme |-> "Bearer ", rest |-> "k"]),
   Some([scheme |-> "Bearer ", rest |-> "x"]),
   Some([scheme |-> "bearer ", rest |-> "k"])}

Queries ==
  {None, Some(<<[name |-> "api_key=", value |-> "k"]>>),
   Some(<<[name |-> "api_key=", value |-> "x"]>>),
   Some(<<[name |-> "fields=", value |-> "cpu"], [name |-> "api_key=", value |-> "k"]>>)}

AuthRequests ==
  [ip : ClientIps, path : {"/api/ws", "/api/stream"}, header : Headers, query : Queries]

InitAuth ==
  /\ InitEngine
  /\ InitSup
  /\ InitCtlIdle
  /\ InitExt
  /\ auth_config \in AuthConfigs
  /\ request = None
  /\ response = "none"

\* a request reaches the middleware layer
AuthArrive(req) ==
  /\ request = None
  /\ request' = Some(req)
  /\ UNCHANGED <<auth_config, response>>
  /\ UNCHANGED <<engineVars, extVars, supVars, ctlVars>>

\* auth_middleware (server/mod.rs lines 557-624)
AuthMiddleware ==
  /\ IsSome(request)
  /\ response = "none"
  /\ response' = auth_middleware(auth_config, Unwrap(request))
  /\ UNCHANGED <<auth_config, request>>
  /\ UNCHANGED <<engineVars, extVars, supVars, ctlVars>>

NextAuth ==
  \/ \E req \in AuthRequests : AuthArrive(req)
  \/ AuthMiddleware

SpecAuth == InitAuth /\ [][NextAuth]_vars

(***************************************************************************)
(* Properties of the auth middleware (checked under SpecAuth).             *)
(***************************************************************************)
\* bit i of an address, the most significant first
BitOf(a, i) == (a.octets[((i - 1) \div 8) + 1] \div (2 ^ (7 - ((i - 1) % 8)))) % 2

TopBitsEqual(a, b, n) == \A i \in 1..n : BitOf(a, i) = BitOf(b, i)

\* an addr/prefix entry covers the client
CidrCovers(client, entry) ==
  /\ IsSome(entry.prefix)
  /\ IsSome(entry.network)
  /\ Unwrap(entry.network).fam = client.fam
  /\ Unwrap(entry.prefix) <= Width(client.fam)
  /\ TopBitsEqual(client, Unwrap(entry.network), Unwrap(entry.prefix))

ListCovers(client, list) ==
  \E i \in 1..Len(list) :
    \/ list[i] = Exact(client)
    \/ CidrCovers(client, list[i])

Answered == IsSome(request) /\ response # "none"

Admissible(cfg, req) ==
  \/ ~cfg.enabled
  \/ ListCovers(req.ip, cfg.allowed_ips)
  \/ cfg.api_key = None
  \/ \E key \in cfg.api_key : req.header = Some([scheme |-> "Bearer ", rest |-> key])
  \/ \E key \in cfg.api_key :
       /\ req.path = "/api/ws"
       /\ \E q \in req.query : \E i \in 1..Len(q) : q[i] = [name |-> "api_key=", value |-> key]

\* C15: a request from an IP that is not blocked is admitted exactly when auth
\* is disabled, or its IP is in allowed_ips, or no key is configured, or its
\* Authorization header is "Bearer " and the key, or its path is /api/ws and
\* its query has api_key equal to the key; every other request is answered 401
C15_AdmitIff ==
  (Answered /\ ~ListCovers(Unwrap(request).ip, auth_config.blocked_ips))
    => /\ response = "next" <=> Admissible(auth_config, Unwrap(request))
       /\ response # "next" => response = "401"

C15_Witness ==
  /\ Answered
  /\ response = "401"
  /\ auth_config.enabled
  /\ auth_config.api_key = Some("k")
  /\ Unwrap(request).path = "/api/stream"
  /\ Unwrap(request).query = Some(<<[name |-> "api_key=", value |-> "k"]>>)
  /\ Unwrap(request).header = None

CidrEntries ==
  {e \in {auth_config.blocked_ips[i] : i \in 1..Len(auth_config.blocked_ips)}
         \cup {auth_config.allowed_ips[i] : i \in 1..Len(auth_config.allowed_ips)} :
     IsSome(e.prefix) /\ IsSome(e.network)}

\* C16: an addr/prefix entry matches a client of its family exactly when the
\* top prefix bits of the two addresses are equal (every client when the
\* prefix is 0); it matches no client of the other family, and no client at
\* all when the prefix is above 32 (IPv4) or above 128 (IPv6)
C16_CidrTopBits ==
  Answered =>
    \A e \in CidrEntries :
      LET client == Unwrap(request).ip
          net == Unwrap(e.network)
          n == Unwrap(e.prefix)
      IN is_ip_in_list(client, <<e>>)
           <=> (client.fam = net.fam /\ n <= Width(net.fam) /\ TopBitsEqual(client, net, n))

C16_Witness ==
  /\ Answered
  /\ response = "403"
  /\ auth_config.blocked_ips = <<Cidr(Link1, 64)>>
  /\ Unwrap(request).ip = LinkFar


(***************************************************************************)
(* The supervisors (lib.rs spawn_server, stop_service, reload_config and   *)
(* server/mod.rs start_server).  Every supervisor builds its own AppState  *)
(* and LoopManager and writes the one status cell that run() created.  A   *)
(* supervisor is "spawned" until it has tried to bind, "serving" while it  *)
(* accepts, "draining" after the shutdown future has completed (the        *)
(* listener is dropped, the open connections are waited for) and           *)
(* "returned" after start_server has returned.  The sessions of one        *)
(* supervisor are summed up as one connection and one loop flag; the       *)
(* engine above models them in full.                                       *)
(***************************************************************************)
Accepting(g) == sup[g] = "serving"

\* TcpListener::bind succeeds only when no other listener of the process
\* holds the port
PortFree(g) == \A h \in Gens \ {g} : ~(Accepting(h) /\ sup_port[h] = sup_port[g])

\* start_server up to the bind (mod.rs lines 455-538); ok is the outcome of
\* TcpListener::bind
SupBind(g, ok) ==
  /\ sup[g] = "spawned"
  /\ ok => PortFree(g)
  /\ sup' = [sup EXCEPT ![g] = IF ok THEN "serving" ELSE "returned"]
  /\ status' = IF ok THEN "Running" ELSE "Error"
  /\ UNCHANGED <<control, signal, reload, cfg_port, sup_port, conn, gen_loop>>
  /\ UNCHANGED <<engineVars, extVars, authVars, ctlVars>>

\* the graceful shutdown future completes: shutdown_rx.recv() returned a
\* message or an error (mod.rs lines 542-545)
SupShutdown(g) ==
  /\ sup[g] = "serving"
  /\ signal[g]
  /\ sup' = [sup EXCEPT ![g] = "draining"]
  /\ UNCHANGED <<status, control, signal, reload, cfg_port, sup_port, conn, gen_loop>>
  /\ UNCHANGED <<engineVars, extVars, authVars, ctlVars>>

\* server.await returns Ok once the open connections are done; an SSE
\* response in flight is one (mod.rs lines 547, 551-554)
SupStopped(g) ==
  /\ sup[g] = "draining"
  /\ conn[g] # "sse"
  /\ sup' = [sup EXCEPT ![g] = "returned"]
  /\ status' = "Stopped"
  /\ UNCHANGED <<control, signal, reload, cfg_port, sup_port, conn, gen_loop>>
  /\ UNCHANGED <<engineVars, extVars, authVars, ctlVars>>

\* server.await returns Err (mod.rs lines 547-550)
SupExitError(g) ==
  /\ sup[g] \in {"serving", "draining"}
  /\ sup' = [sup EXCEPT ![g] = "returned"]
  /\ status' = "Error"
  /\ UNCHANGED <<control, signal, reload, cfg_port, sup_port, conn, gen_loop>>
  /\ UNCHANGED <<engineVars, extVars, authVars, ctlVars>>

\* tx.send(()) on the stored sender; it is lost when the receiver is gone
send_shutdown(sig, ctl) ==
  [g \in Gens |-> IF g \in ctl /\ sup[g] # "returned" THEN TRUE ELSE sig[g]]

\* stop_service (lib.rs lines 89-96)
StopService ==
  /\ signal' = send_shutdown(signal, control)
  /\ signal' # signal
  /\ UNCHANGED <<status, control, sup, reload, cfg_port, sup_port, conn, gen_loop>>
  /\ UNCHANGED <<engineVars, extVars, authVars, ctlVars>>

\* reload_config, steps 1 and 2 (lib.rs lines 105-119); port is server.port
\* of the configuration read from disk
ReloadSignal(port) ==
  /\ reload = "idle"
  /\ Unwrap(control) < MaxGens
  /\ cfg_port' = port
  /\ signal' = send_shutdown(signal, control)
  /\ reload' = "sleep"
  /\ UNCHANGED <<status, control, sup, sup_port, conn, gen_loop>>
  /\ UNCHANGED <<engineVars, extVars, authVars, ctlVars>>

\* reload_config, steps 3 and 4 (lib.rs lines 121-133) with spawn_server
\* (lib.rs lines 28-44): the stored sender is replaced, which closes the
\* channel of the supervisor before
ReloadSpawn ==
  /\ reload = "sleep"
  /\ LET old == Unwrap(control)
         new == old + 1
     IN /\ control' = Some(new)
        /\ sup' = [sup EXCEPT ![new] = "spawned"]
        /\ sup_port' = [sup_port EXCEPT ![new] = cfg_port]
        /\ signal' = [signal EXCEPT ![old] = TRUE]
  /\ reload' = "idle"
  /\ UNCHANGED <<status, cfg_port, conn, gen_loop>>
  /\ UNCHANGED <<engineVars, extVars, authVars, ctlVars>>

\* a client opens a session on a supervisor that accepts and subscribes:
\* the LoopManager of that supervisor starts a loop
ClientConnect(g, kind) ==
  /\ Accepting(g)
  /\ conn[g] = "none"
  /\ conn' = [conn EXCEPT ![g] = kind]
  /\ gen_loop' = [gen_loop EXCEPT ![g] = TRUE]
  /\ UNCHANGED <<status, control, sup, signal, reload, cfg_port, sup_port>>
  /\ UNCHANGED <<engineVars, extVars, authVars, ctlVars>>

\* the client goes away; the cleanup of the session releases its topics and
\* the loop, left without subscribers, is stopped
ClientDisconnect(g) ==
  /\ conn[g] # "none"
  /\ conn' = [conn EXCEPT ![g] = "none"]
  /\ gen_loop' = [gen_loop EXCEPT ![g] = FALSE]
  /\ UNCHANGED <<status, control, sup, signal, reload, cfg_port, sup_port>>
  /\ UNCHANGED <<engineVars, extVars, authVars, ctlVars>>

NextSup ==
  \/ \E g \in Gens : \E ok \in BOOLEAN : SupBind(g, ok)
  \/ \E g \in Gens : SupShutdown(g)
  \/ \E g \in Gens : SupStopped(g)
  \/ \E g \in Gens : SupExitError(g)
  \/ StopService
  \/ \E port \in Ports : ReloadSignal(port)
  \/ ReloadSpawn
  \/ \E g \in Gens : \E kind \in {"ws", "sse"} : ClientConnect(g, kind)
  \/ \E g \in Gens : ClientDisconnect(g)

SpecSup == Init /\ [][NextSup]_vars

\* The runtime runs every task that can run and the sleep of reload_config
\* ends; nothing makes a client leave or an operator act.
SupFairness ==
  /\ \A g \in Gens : WF_vars(\E ok \in BOOLEAN : SupBind(g, ok))
  /\ \A g \in Gens : WF_vars(SupShutdown(g))
  /\ \A g \in Gens : WF_vars(SupStopped(g))
  /\ WF_vars(ReloadSpawn)

SpecSupFair == Init /\ [][NextSup]_vars /\ SupFairness

(***************************************************************************)
(* Properties of the supervisors.                                          *)
(***************************************************************************)
StatusMoves ==
  {<<"Starting", "Running">>, <<"Starting", "Error">>,
   <<"Running", "Stopped">>, <<"Running", "Error">>}

\* C17: the shared ServerStatus changes only from Starting to Running or to
\* Error and from Running to Stopped or to Error; it never leaves Stopped or
\* Error (checked under SpecSup)
C17_StatusStateMachine ==
  [][status' # status => <<status, status'>> \in StatusMoves]_vars

Reloaded == reload = "idle" /\ Unwrap(control) > 1

OldWork == \E g \in Gens : g < Unwrap(control) /\ (conn[g] # "none" \/ gen_loop[g])

\* C18: once a reload has spawned its supervisor, eventually no session and
\* no sampling loop of an earlier supervisor is left and at most one
\* supervisor accepts (checked under SpecSupFair)
C18_ReloadLeaksNothing ==
  Reloaded ~> (~OldWork /\ Cardinality({g \in Gens : Accepting(g)}) <= 1)


(***************************************************************************)
(* The control plane of a WebSocket session (server/ws.rs): the control    *)
(* messages, the malformed frames and the outgoing channel of the session. *)
(* As in the data path, a handler runs as one step.  The media and process *)
(* loops that a subscription starts publish their own events; those are    *)
(* left out here, the bus carries the feedback events only.                *)
(***************************************************************************)

\* The slots of the outgoing channel (ws.rs line 53 creates it with 32; the
\* model keeps the bounded queue with fewer)
MailboxCapacity == 1

\* The control and malformed messages of a run
MaxCommands == 2

\* the json of ws.rs lines 228-234
ParseErrorFrame == [type |-> "error", code |-> "PARSE_ERROR"]

\* a channel that loses what is sent
mpsc_lose(q, msg) == q

\* tx.send(msg) on a channel with room
mpsc_send(q, msg) == Append(q, msg)

HasRoom(s) == Len(mailbox[s]) < MailboxCapacity

\* The control messages of the model: op is the serde tag of
\* WebSocketMessage, action the action of the feedback
CtlCommands ==
  {[op |-> "media", action |-> "set_volume"],
   [op |-> "media", action |-> "play"],
   [op |-> "process_kill", action |-> "kill"],
   [op |-> "process_focus", action |-> "focus"],
   [op |-> "process_launch", action |-> "launch"]}

\* BroadcastEvent::MediaFeedback / ProcessFeedback(OperationFeedback {..}):
\* message is Some or None
OperationFeedback(type, success, action, message) ==
  [type |-> type, success |-> success, action |-> action, message |-> message]

\* handle_ws_command; ok is the outcome of the backend call (set_volume,
\* run_media_action or the media key, process.kill, cmd.spawn)
handle_ws_command(cmd, feat, ok) ==
  CASE cmd.op = "media" ->
         IF ~feat.enable_media
         THEN Some(OperationFeedback("media_feedback", FALSE, cmd.action, TRUE))
         ELSE IF cmd.action = "set_volume"
         THEN Some(OperationFeedback("media_feedback", ok, cmd.action, ~ok))
         ELSE Some(OperationFeedback("media_feedback", TRUE, cmd.action, FALSE))
    [] cmd.op \in {"process_kill", "process_launch"} ->
         IF ~feat.enable_processes
         THEN Some(OperationFeedback("process_feedback", FALSE, cmd.action, TRUE))
         ELSE Some(OperationFeedback("process_feedback", ok, cmd.action, ~ok))
    [] cmd.op = "process_focus" -> None
    [] OTHER -> None

\* The subscribe messages of the control plane
CtlRequests == {<<"Media">>, <<"process">>, <<"cpu", "stats.media">>}

InitCtl ==
  /\ InitEngine
  /\ InitAuthIdle
  /\ InitSup
  /\ InitExt
  /\ mailbox = [s \in WsIds |-> << >>]
  /\ features \in {Features(media, processes) : media \in BOOLEAN, processes \in BOOLEAN}
  /\ n_commands = 0

\* recv task, any message but Subscribe (ws.rs lines 214-223)
WsRecvControl(s, cmd, ok) ==
  /\ WsLive(s)
  /\ pc[Recv(s)] = "await"
  /\ n_commands < MaxCommands
  /\ n_commands' = n_commands + 1
  /\ LET feedback == handle_ws_command(cmd, features, ok)
     IN IF IsSome(feedback)
        THEN BusSend(Unwrap(feedback))
        ELSE UNCHANGED <<bus, behind, lagged>>
  /\ UNCHANGED <<regVars, sessVars>>
  /\ UNCHANGED <<stats_loop, famVars, stats_enabled, gpu_enabled, gpu_cache, sse_fields,
                 delivered, n_toggles>>
  /\ UNCHANGED <<extVars, authVars, supVars, mailbox, features>>

\* recv task, a text that does not parse (ws.rs lines 226-238): the error
\* frame goes to the outgoing channel; the task waits in tx.send when the
\* channel is full
WsRecvParseError(s) ==
  /\ WsLive(s)
  /\ pc[Recv(s)] = "await"
  /\ n_commands < MaxCommands
  /\ n_commands' = n_commands + 1
  /\ IF HasRoom(s)
     THEN /\ mailbox' = [mailbox EXCEPT ![s] = mpsc_send(@, ParseErrorFrame)]
          /\ UNCHANGED pc
     ELSE /\ pc' = [pc EXCEPT ![Recv(s)] = "blocked"]
          /\ UNCHANGED mailbox
  /\ UNCHANGED <<regVars, subscriptions, call, recv_new, recv_abort, n_subscribes>>
  /\ UNCHANGED busVars
  /\ UNCHANGED <<extVars, authVars, supVars, features>>

\* recv task: tx.send returns once the channel has room (ws.rs line 236)
WsRecvErrorQueued(s) ==
  /\ WsLive(s)
  /\ pc[Recv(s)] = "blocked"
  /\ HasRoom(s)
  /\ mailbox' = [mailbox EXCEPT ![s] = mpsc_send(@, ParseErrorFrame)]
  /\ pc' = [pc EXCEPT ![Recv(s)] = "await"]
  /\ UNCHANGED <<regVars, subscriptions, call, recv_new, recv_abort, n_subscribes>>
  /\ UNCHANGED busVars
  /\ UNCHANGED <<extVars, authVars, supVars, features, n_commands>>

\* send task: outgoing_rx.recv() returns a frame (ws.rs lines 66-71); ok is
\* the outcome of sender.send
WsSendMailbox(s, ok) ==
  /\ WsLive(s)
  /\ mailbox[s] # << >>
  /\ IF ok
     THEN /\ delivered' = Some([to |-> Main(s), frame |-> Head(mailbox[s])])
          /\ mailbox' = [mailbox EXCEPT ![s] = Tail(@)]
          /\ UNCHANGED <<regVars, sessVars>>
          /\ UNCHANGED <<stats_loop, famVars, stats_enabled, gpu_enabled, gpu_cache, bus, behind,
                         lagged, sse_fields, n_toggles>>
          /\ UNCHANGED <<extVars, authVars, supVars, features, n_commands>>
     ELSE WsTeardown(s)

\* send task: rx.recv() returns a feedback event (ws.rs lines 73-79,
\* 137-160); ok is the outcome of sender.send
CtlWsSendEvent(s, ok) ==
  /\ WsLive(s)
  /\ ~lagged[Main(s)]
  /\ behind[Main(s)] > 0
  /\ LET ev == NextEvent(Main(s))
     IN IF should_send(subscriptions[s], ev) /\ ~ok
        THEN WsTeardown(s)
        ELSE /\ ok
             /\ delivered' = IF should_send(subscriptions[s], ev)
                             THEN Some([to |-> Main(s), frame |-> ev])
                             ELSE delivered
             /\ BusRecv(Main(s))
             /\ UNCHANGED <<regVars, sessVars>>
             /\ UNCHANGED <<stats_loop, famVars, stats_enabled, gpu_enabled, gpu_cache, lagged,
                            sse_fields, n_toggles, auxVars>>

NextCtl ==
  \/ \E s \in WsIds : BusWsConnect(s)
  \/ \E s \in WsIds : \E topics \in CtlRequests : BusWsSubscribe(s, topics)
  \/ \E s \in WsIds : \E cmd \in CtlCommands : \E ok \in BOOLEAN : WsRecvControl(s, cmd, ok)
  \/ \E s \in WsIds : WsRecvParseError(s)
  \/ \E s \in WsIds : WsRecvErrorQueued(s)
  \/ \E s \in WsIds : \E ok \in BOOLEAN : WsSendMailbox(s, ok)
  \/ \E s \in WsIds : BusWsSendLagged(s)
  \/ \E s \in WsIds : \E ok \in BOOLEAN : CtlWsSendEvent(s, ok)
  \/ \E s \in WsIds : BusWsPeerClose(s)

SpecCtl == InitCtl /\ [][NextCtl]_vars

(***************************************************************************)
(* Properties of the control plane (checked under SpecCtl).                *)
(***************************************************************************)
FeedbackType(cmd) == IF cmd.op = "media" THEN "media_feedback" ELSE "process_feedback"

\* the feedback events that answer cmd when the operation ended as ok
FeedbackFor(cmd, ok) ==
  {ev \in [type : {FeedbackType(cmd)}, success : BOOLEAN, action : {cmd.action},
           message : BOOLEAN] :
     ~ok => (~ev.success /\ ev.message)}

FamilyTopicsOf(ev) ==
  IF ev.type = "media_feedback" THEN {"media", "stats.media"} ELSE {"processes", "process"}

\* C19: every control message publishes exactly one feedback event of its
\* kind, with success false and a message when the operation failed, and a
\* session is sent a feedback event exactly when its set holds a topic of
\* the family of the event
C19_ControlFeedback ==
  [][/\ \A s \in WsIds : \A cmd \in CtlCommands : \A ok \in BOOLEAN :
          WsRecvControl(s, cmd, ok) => \E ev \in FeedbackFor(cmd, ok) : BusSend(ev)
     /\ \A s \in WsIds :
          (CtlWsSendEvent(s, TRUE) /\ WsLive(s)')
            => LET ev == NextEvent(Main(s))
               IN IF subscriptions[s] # None /\ Unwrap(subscriptions[s]) \cap FamilyTopicsOf(ev) # {}
                  THEN delivered' = Some([to |-> Main(s), frame |-> ev])
                  ELSE delivered' = delivered]_vars

\* C20: a text frame that does not parse puts one PARSE_ERROR frame in the
\* outgoing channel of its session (once the channel has room), leaves the
\* session open with its recv task reading, and changes neither the
\* subscription set nor a registry count nor a loop handle
C20_ParseErrorInline ==
  [][\A s \in WsIds :
       (WsRecvParseError(s) \/ WsRecvErrorQueued(s))
         => /\ \/ /\ mailbox'[s] = Append(mailbox[s], ParseErrorFrame)
                  /\ pc'[Recv(s)] = "await"
               \/ /\ ~HasRoom(s)
                  /\ mailbox'[s] = mailbox[s]
                  /\ pc'[Recv(s)] = "blocked"
            /\ \A s2 \in WsIds \ {s} : mailbox'[s2] = mailbox[s2]
            /\ pc'[Main(s)] = "select"
            /\ pc'[Send(s)] = pc[Send(s)]
            /\ subscriptions' = subscriptions
            /\ active_topics' = active_topics
            /\ handle' = handle]_vars

C20_Witness ==
  \E s \in WsIds :
    /\ WsLive(s)
    /\ pc[Recv(s)] = "await"
    /\ delivered = Some([to |-> Main(s), frame |-> ParseErrorFrame])
    /\ mailbox[s] = <<ParseErrorFrame>>
    /\ IsSome(subscriptions[s])
    /\ handle["media"] = "some"


(***************************************************************************)
(* Properties of the topic expansion (checked under SpecCtl, whose         *)
(* subscribe messages name an alias, a mixed-case topic and a plain one).  *)
(***************************************************************************)
\* the expansion table of the topics
ExpansionTable(t) ==
  CASE t = "stats" ->
         {"stats"} \cup {StatsTopic(X) : X \in StatsSubFields} \cup StatsSubFields
    [] t \in {"cpu", "memory", "gpu", "disks"} -> {t, StatsTopic(t)}
    [] t \in {"network", "net"} -> {"network", "stats.network"}
    [] t = "process" -> {"processes", "process"}
    [] OTHER -> {t}

\* C22: the set a subscribe stores is the union, over the lower-cased topics
\* of the message, of: stats with its five stats.X children and five short
\* aliases for stats; {X, stats.X} for cpu, memory, gpu, disks;
\* {network, stats.network} for network and net; {processes, process} for
\* process; the topic itself for any other
C22_ExpansionTable ==
  [][\A s \in WsIds : \A topics \in CtlRequests :
       BusWsSubscribe(s, topics)
         => subscriptions'[s] =
              Some(UNION {ExpansionTable(to_lowercase(topics[i])) : i \in DOMAIN topics})]_vars


(***************************************************************************)
(* The configuration commands (lib.rs).  Each command locks the shared     *)
(* AppConfig, checks its argument or not, writes the field and returns;    *)
(* an Err leaves the configuration as it was.                              *)
(***************************************************************************)
\* host.parse::<std::net::IpAddr>().is_ok() on the host texts of the model
parses_ip(text) == text \in {"0.0.0.0", "127.0.0.1", "::1"}

\* port as u16
as_u16(n) == n % 65536

\* the text of an entry holds a '/'
contains_slash(entry) == IsSome(entry.prefix)

\* an entry text without '/' that is no address
Garbage == [network |-> None, prefix |-> None]

\* ip.parse::<IpAddr>().is_err() && !ip.contains('/') (lib.rs lines 321, 352)
rejected_ip(entry) ==
  ~(entry.prefix = None /\ IsSome(entry.network)) /\ ~contains_slash(entry)

\* if !list.contains(&ip) { list.push(ip) }
push_new(list, entry) ==
  IF \E i \in 1..Len(list) : list[i] = entry THEN list ELSE Append(list, entry)

\* The arguments of the model
PortArgs == {80, 1024}
HostArgs == {"127.0.0.1", "localhost"}
IntervalArgs == {99, 60000}
TopicArgs == Families \cup {"custom"}
DiskArgs == {0, 300, 301}
StreamArgs == {0, 60, 61}
IpArgs == {Exact(Lan1), Unparsable(8), Garbage}

NoUpdate ==
  [port |-> None, host |-> None, disk |-> None, stream |-> None,
   interval |-> [f \in Families |-> None]]

\* the updates objects given to update_config: port is a JSON number
UpdateArgs ==
  {[NoUpdate EXCEPT !.port = Some(65616)],
   [NoUpdate EXCEPT !.host = Some("localhost")],
   [NoUpdate EXCEPT !.disk = Some(0)],
   [NoUpdate EXCEPT !.stream = Some(61)],
   [NoUpdate EXCEPT !.interval["media"] = Some(99)],
   [NoUpdate EXCEPT !.port = Some(1024), !.host = Some("127.0.0.1")]}

\* if let Some(v) = updates.get(..) { field = v }
apply_update(o, old) == IF IsSome(o) THEN Unwrap(o) ELSE old

supRest == <<status, control, sup, signal, reload, sup_port, conn, gen_loop>>

\* update_ws_interval (lib.rs lines 173-196)
UpdateWsInterval(topic, interval_ms) ==
  /\ ws_interval' = IF interval_ms < 100 \/ interval_ms > 60000
                    THEN ws_interval
                    ELSE IF topic \in Families
                    THEN [ws_interval EXCEPT ![topic] = interval_ms]
                    ELSE ws_interval
  /\ UNCHANGED <<cfg_host, disk_cache_seconds, stream_interval_seconds>>
  /\ UNCHANGED <<engineVars, authVars, ctlVars, supVars, restVars, loopVars, lockVars>>

\* update_server_port (lib.rs lines 221-235)
UpdateServerPort(port) ==
  /\ cfg_port' = IF port < 1024 THEN cfg_port ELSE port
  /\ UNCHANGED <<engineVars, authVars, ctlVars, restVars, cfgVars, supRest, loopVars, lockVars>>

\* update_server_host (lib.rs lines 237-252)
UpdateServerHost(host) ==
  /\ cfg_host' = IF ~parses_ip(host) THEN cfg_host ELSE host
  /\ UNCHANGED <<ws_interval, disk_cache_seconds, stream_interval_seconds>>
  /\ UNCHANGED <<engineVars, authVars, ctlVars, supVars, restVars, loopVars, lockVars>>

\* update_disk_cache_seconds (lib.rs lines 402-416)
UpdateDiskCacheSeconds(seconds) ==
  /\ disk_cache_seconds' = IF seconds < 1 \/ seconds > 300
                           THEN disk_cache_seconds ELSE seconds
  /\ UNCHANGED <<cfg_host, ws_interval, stream_interval_seconds>>
  /\ UNCHANGED <<engineVars, authVars, ctlVars, supVars, restVars, loopVars, lockVars>>

\* update_stream_interval (lib.rs lines 418-432)
UpdateStreamInterval(seconds) ==
  /\ stream_interval_seconds' = IF seconds < 1 \/ seconds > 60
                                THEN stream_interval_seconds ELSE seconds
  /\ UNCHANGED <<cfg_host, ws_interval, disk_cache_seconds>>
  /\ UNCHANGED <<engineVars, authVars, ctlVars, supVars, restVars, loopVars, lockVars>>

\* add_allowed_ip (lib.rs lines 314-331)
AddAllowedIp(ip) ==
  /\ auth_config' = IF rejected_ip(ip) THEN auth_config
                    ELSE [auth_config EXCEPT !.allowed_ips = push_new(@, ip)]
  /\ UNCHANGED <<request, response>>
  /\ UNCHANGED <<engineVars, ctlVars, supVars, restVars, cfgVars, loopVars, lockVars>>

\* add_blocked_ip (lib.rs lines 345-362)
AddBlockedIp(ip) ==
  /\ auth_config' = IF rejected_ip(ip) THEN auth_config
                    ELSE [auth_config EXCEPT !.blocked_ips = push_new(@, ip)]
  /\ UNCHANGED <<request, response>>
  /\ UNCHANGED <<engineVars, ctlVars, supVars, restVars, cfgVars, loopVars, lockVars>>

\* update_config (lib.rs lines 438-509) on an updates object that names
\* server.port, server.host, the stats seconds and the interval_ms fields
UpdateConfig(updates) ==
  /\ cfg_port' = IF IsSome(updates.port) THEN as_u16(Unwrap(updates.port)) ELSE cfg_port
  /\ cfg_host' = apply_update(updates.host, cfg_host)
  /\ disk_cache_seconds' = apply_update(updates.disk, disk_cache_seconds)
  /\ stream_interval_seconds' = apply_update(updates.stream, stream_interval_seconds)
  /\ ws_interval' = [f \in Families |-> apply_update(updates.interval[f], ws_interval[f])]
  /\ UNCHANGED <<engineVars, authVars, ctlVars, supRest, restVars, loopVars, lockVars>>

NextConfig ==
  \/ \E topic \in TopicArgs : \E interval_ms \in IntervalArgs :
       UpdateWsInterval(topic, interval_ms)
  \/ \E port \in PortArgs : UpdateServerPort(port)
  \/ \E host \in HostArgs : UpdateServerHost(host)
  \/ \E seconds \in DiskArgs : UpdateDiskCacheSeconds(seconds)
  \/ \E seconds \in StreamArgs : UpdateStreamInterval(seconds)
  \/ \E ip \in IpArgs : AddAllowedIp(ip)
  \/ \E ip \in IpArgs : AddBlockedIp(ip)
  \/ \E updates \in UpdateArgs : UpdateConfig(updates)

SpecConfig == Init /\ [][NextConfig]_vars

ValidEntry(entry) ==
  /\ IsSome(entry.network)
  /\ \A n \in entry.prefix : n >= 0 /\ n <= Width(Unwrap(entry.network).fam)

\* C24: after any sequence of configuration commands server.port is at
\* least 1024, server.host parses as an IP, every interval_ms is within
\* 100..60000, disk_cache_seconds within 1..300, stream_interval_seconds
\* within 1..60, and every allowed or blocked entry parses as an address or
\* as addr/prefix (checked under SpecConfig)
C24_ConfigValid ==
  /\ cfg_port >= 1024
  /\ parses_ip(cfg_host)
  /\ \A f \in Families : ws_interval[f] >= 100 /\ ws_interval[f] <= 60000
  /\ disk_cache_seconds >= 1 /\ disk_cache_seconds <= 300
  /\ stream_interval_seconds >= 1 /\ stream_interval_seconds <= 60
  /\ \A i \in 1..Len(auth_config.allowed_ips) : ValidEntry(auth_config.allowed_ips[i])
  /\ \A i \in 1..Len(auth_config.blocked_ips) : ValidEntry(auth_config.blocked_ips[i])


\* C25: once the stats loop has stopped running, cancelled or exited because
\* websocket.stats.enabled was false, the stats handle slot is cleared, so
\* that the next 0->1 transition spawns a new loop (checked under SpecBus)
C25_StoppedLoopSlotCleared ==
  stats_loop \in {"none", "exited"} => handle["stats"] = "none"


\* C26: ensure_loop_running is idempotent under concurrent and repeated
\* callers: every family has at most one loop task, the slot of a family
\* that has one is Some, and a family whose slot is None has none
\* (checked under Spec)
C26_EnsureIdempotent ==
  \A f \in Families :
    /\ loops[f] <= 1
    /\ loops[f] = 1 => handle[f] = "some"
    /\ handle[f] = "none" => loops[f] = 0

\* two sessions are inside subscribe_topics for topics of the stats family
\* and the stats loop has been spawned
C26_Witness ==
  /\ loops["stats"] = 1
  /\ \E s \in WsIds : \E r \in WsIds :
       /\ s # r
       /\ call[Recv(s)].op = "sub" /\ call[Recv(s)].stage = "loop"
       /\ call[Recv(r)].op = "sub" /\ call[Recv(r)].stage = "loop"
       /\ \E t \in call[Recv(s)].todo : FamilyOf(t) = "stats"
       /\ \E t \in call[Recv(r)].todo : FamilyOf(t) = "stats"


(***************************************************************************)
(* The mutexes of the registry operations.  A call is the sequence of its  *)
(* lock() and guard drops, in the order of the source; std::sync::Mutex    *)
(* gives the lock to one task at a time and makes the others wait.         *)
(***************************************************************************)
Lock(l) == <<"lock", l>>
Unlock(l) == <<"unlock", l>>
\* a step that runs w and touches no mutex
Work(w) == <<"work", w>>

HandleLock(f) ==
  CASE f = "stats" -> "stats_handle"
    [] f = "media" -> "media_handle"
    [] OTHER -> "processes_handle"

\* ensure_loop_running (mod.rs lines 62-81): the handle guard lives to the
\* end of its branch
locks_ensure_loop_running(f) == <<Lock(HandleLock(f)), Unlock(HandleLock(f))>>

\* stop_loop_if_idle that keeps the registry guard while it takes the handle
locks_stop_keeping_registry(f, idle) ==
  IF idle
  THEN <<Lock("active_topics"), Lock(HandleLock(f)), Unlock(HandleLock(f)),
         Unlock("active_topics")>>
  ELSE <<Lock("active_topics"), Unlock("active_topics")>>

\* stop_loop_if_idle (mod.rs lines 85-160): the registry is locked at entry;
\* with no subscriber left drop(topics) comes before the handle lock,
\* otherwise the guard lives to the end of the function
locks_stop_loop_if_idle(f, idle) ==
  IF idle
  THEN <<Lock("active_topics"), Unlock("active_topics"),
         Lock(HandleLock(f)), Unlock(HandleLock(f))>>
  ELSE <<Lock("active_topics"), Unlock("active_topics")>>

RECURSIVE locks_start(_)
locks_start(fams) ==
  IF fams = << >> THEN << >>
  ELSE locks_ensure_loop_running(Head(fams)) \o locks_start(Tail(fams))

RECURSIVE locks_stop(_)
locks_stop(stops) ==
  IF stops = << >> THEN << >>
  ELSE locks_stop_loop_if_idle(Head(stops)[1], Head(stops)[2]) \o locks_stop(Tail(stops))

\* subscribe_topics (handlers.rs lines 26-45): fams are the families of
\* topics_to_start
locks_subscribe_topics(fams) ==
  <<Lock("active_topics"), Unlock("active_topics")>> \o locks_start(fams)

\* unsubscribe_topics (handlers.rs lines 48-68): stops are the families of
\* topics_to_stop, each with what stop_loop_if_idle reads from the registry
locks_unsubscribe_topics(stops) ==
  <<Lock("active_topics"), Unlock("active_topics")>> \o locks_stop(stops)

\* one iteration of spawn_stats_loop (mod.rs lines 170-312): the config, the
\* registry read, then the samplers
locks_stats_iteration ==
  <<Lock("config"), Unlock("config"),
    Lock("active_topics"), Unlock("active_topics"),
    Lock("system"), Unlock("system")>>

\* The calls of the model
StartArgs == {<< >>, <<"stats">>, <<"stats", "media">>}
StopArgs == {<< >>, <<<<"stats", TRUE>>>>, <<<<"stats", FALSE>>, <<"media", TRUE>>>>}

LockCalls(t) ==
  IF t[1] = "loop" THEN {locks_stats_iteration}
  ELSE IF t[1] = "http" THEN {}
  ELSE {locks_subscribe_topics(fams) : fams \in StartArgs}
         \cup {locks_unsubscribe_topics(stops) : stops \in StopArgs}

\* task t enters a call
LockCall(t, prog) ==
  /\ lock_pc[t] = 0
  /\ lock_prog' = [lock_prog EXCEPT ![t] = prog]
  /\ lock_pc' = [lock_pc EXCEPT ![t] = 1]
  /\ UNCHANGED lock_owner
  /\ UNCHANGED <<engineVars, authVars, supVars, ctlVars, restVars, cfgVars, loopVars>>

NextStep(t) == lock_prog[t][lock_pc[t]]

\* the next step of t can be taken: a lock() waits while the mutex is held
CanStep(t) ==
  /\ lock_pc[t] > 0
  /\ NextStep(t)[1] = "lock" => lock_owner[NextStep(t)[2]] = None

\* task t takes its next lock or drops a guard; after the last step the
\* call returns
LockStep(t) ==
  /\ CanStep(t)
  /\ lock_owner' = IF NextStep(t)[1] = "work" THEN lock_owner
                    ELSE [lock_owner EXCEPT ![NextStep(t)[2]] =
                            IF NextStep(t)[1] = "lock" THEN Some(t) ELSE None]
  /\ lock_pc' = [lock_pc EXCEPT ![t] = IF @ = Len(lock_prog[t]) THEN 0 ELSE @ + 1]
  /\ UNCHANGED lock_prog
  /\ UNCHANGED <<engineVars, authVars, supVars, ctlVars, restVars, cfgVars, loopVars>>

NextLock ==
  \/ \E t \in LockTasks : \E prog \in LockCalls(t) : LockCall(t, prog)
  \/ \E t \in LockTasks : LockStep(t)

SpecLock == Init /\ [][NextLock]_vars

Held(t) == {l \in Locks : lock_owner[l] = Some(t)}

Wants(t) ==
  IF lock_pc[t] > 0 /\ NextStep(t)[1] = "lock" THEN {NextStep(t)[2]} ELSE {}

\* C27: no task holds the registry lock while it acquires a handle lock, nor
\* a handle lock while it acquires the registry lock, and whenever a call
\* is in progress some task in a call can take its next step (checked
\* under SpecLock)
C27_NoLockNesting ==
  /\ \A t \in LockTasks :
       /\ Wants(t) \cap HandleLocks # {} => "active_topics" \notin Held(t)
       /\ "active_topics" \in Wants(t) => Held(t) \cap HandleLocks = {}
  /\ (\E t \in LockTasks : lock_pc[t] > 0) => \E t \in LockTasks : CanStep(t)

\* one recv task holds the registry lock inside stop_loop_if_idle, the
\* stats loop waits for it, the other recv task holds a handle lock
C27_Witness ==
  \E s \in WsIds : \E r \in WsIds :
    /\ s # r
    /\ Held(<<"recv", s>>) = {"active_topics"}
    /\ lock_prog[<<"recv", s>>] \in {locks_unsubscribe_topics(stops) : stops \in StopArgs}
    /\ lock_pc[<<"recv", s>>] > 2
    /\ Held(<<"recv", r>>) \cap HandleLocks # {}
    /\ Wants(<<"loop", 1>>) = {"active_topics"}


\* The demand mask of the registry: sub-field X is needed when X, stats.X
\* or stats has a subscriber
MaskOf(reg) ==
  {X \in StatsSubFields : reg[X] > 0 \/ reg[StatsTopic(X)] > 0 \/ reg["stats"] > 0}

\* C28: a stats-loop iteration that finds zero bus receivers or an all-false
\* demand mask refreshes no sampler and publishes nothing; every other
\* iteration refreshes only samplers whose mask bit is set (checked under
\* SpecBus)
C28_RefreshOnlyNeeded ==
  [][\/ IF receiver_count = 0 \/ MaskOf(active_topics) = {}
        THEN refreshed' = {} /\ bus' = bus /\ gpu_cache' = gpu_cache
        ELSE refreshed' \subseteq MaskOf(active_topics)
     \/ ~\E fresh \in BOOLEAN : \E probe \in BOOLEAN : StatsLoopRun(fresh, probe)]_vars

\* the loop has refreshed some samplers and left others untouched
C28_Witness ==
  /\ refreshed # {}
  /\ refreshed # StatsSubFields
  /\ stats_loop = "sleeping"


(***************************************************************************)
(* The media and processes loops (server/mod.rs) and the feature flags     *)
(* they read.  One action is one iteration of a loop, from the read of the *)
(* configuration to the send.                                              *)
(***************************************************************************)
\* The samples get_media_status may return: MediaStatus values that differ in
\* title, or only in artist
MediaStatus(media_title, media_artist) ==
  [title |-> media_title, artist |-> media_artist, playing |-> TRUE, muted |-> FALSE,
   volume |-> 50]

MediaSamples ==
  {MediaStatus("song", "band"), MediaStatus("song", "cover"), MediaStatus("talk", "band")}

\* a signature that tells every two samples apart
full_sig(media) == <<media.title, media.artist, media.playing, media.muted, media.volume>>

\* current_sig (mod.rs lines 367-370): title, playing, muted and volume
current_sig(media) == <<media.title, media.playing, media.muted, media.volume>>

\* changed (mod.rs lines 371-374)
changed(last, sig) == IF IsSome(last) THEN Unwrap(last) # sig ELSE TRUE

\* websocket.media.enabled and websocket.processes.enabled: no command of
\* the model changes them
family_enabled == TRUE

need_media(reg) == reg["media"] > 0 \/ reg["stats.media"] > 0

need_processes(reg) == reg["processes"] > 0 \/ reg["process"] > 0

\* the processes loop without the check of features.enable_processes
processes_gate_open(feat) == TRUE

\* mod.rs lines 427-430
processes_gate(feat) == feat.enable_processes

\* one iteration of spawn_media_loop (mod.rs lines 326-383); sample is what
\* get_media_status returns if it is called
MediaLoopRun(sample) ==
  /\ media_loop \in {"first", "sleeping"}
  /\ IF ~family_enabled
     THEN /\ media_loop' = "exited"
          /\ loop_interval' = [loop_interval EXCEPT !["media"] = None]
          /\ refreshed' = {}
          /\ sent' = None
          /\ UNCHANGED <<last_status, bus, behind, lagged>>
     ELSE /\ media_loop' = "sleeping"
          /\ loop_interval' = [loop_interval EXCEPT !["media"] = Some(interval_read(loop_interval["media"], ws_interval["media"]))]
          /\ IF receiver_count = 0 \/ ~need_media(active_topics) \/ ~features.enable_media
             THEN /\ refreshed' = {}
                  /\ sent' = None
                  /\ UNCHANGED <<last_status, bus, behind, lagged>>
             ELSE /\ refreshed' = {"media"}
                  /\ IF IsSome(sample) /\ changed(last_status, current_sig(Unwrap(sample)))
                     THEN /\ last_status' = Some(current_sig(Unwrap(sample)))
                          /\ sent' = Some(MediaUpdate(Unwrap(sample)))
                          /\ BusSend(MediaUpdate(Unwrap(sample)))
                     ELSE /\ sent' = None
                          /\ UNCHANGED <<last_status, bus, behind, lagged>>
  /\ UNCHANGED <<regVars, sessVars>>
  /\ UNCHANGED <<stats_loop, processes_loop, aborted, stats_enabled, gpu_enabled, gpu_cache,
                 sse_fields, delivered>>
  /\ UNCHANGED <<n_toggles, authVars, supVars, ctlVars, restVars, cfgVars, lockVars, loops>>

\* one iteration of spawn_processes_loop (mod.rs lines 393-446)
ProcessesLoopRun ==
  /\ processes_loop \in {"first", "sleeping"}
  /\ IF ~family_enabled
     THEN /\ processes_loop' = "exited"
          /\ loop_interval' = [loop_interval EXCEPT !["processes"] = None]
          /\ refreshed' = {}
          /\ sent' = None
          /\ UNCHANGED <<bus, behind, lagged>>
     ELSE /\ processes_loop' = "sleeping"
          /\ loop_interval' = [loop_interval EXCEPT !["processes"] = Some(interval_read(loop_interval["processes"], ws_interval["processes"]))]
          /\ IF receiver_count = 0 \/ ~need_processes(active_topics)
                  \/ ~processes_gate(features)
             THEN /\ refreshed' = {}
                  /\ sent' = None
                  /\ UNCHANGED <<bus, behind, lagged>>
             ELSE /\ refreshed' = {"processes"}
                  /\ sent' = Some(ProcessList)
                  /\ BusSend(ProcessList)
  /\ UNCHANGED <<regVars, sessVars>>
  /\ UNCHANGED <<stats_loop, media_loop, last_status, aborted, stats_enabled, gpu_enabled,
                 gpu_cache, sse_fields, delivered>>
  /\ UNCHANGED <<n_toggles, authVars, supVars, ctlVars, restVars, cfgVars, lockVars, loops>>

\* toggle_feature (lib.rs lines 136-166), "media", "processes" and "stream"
ToggleFeature(feature) ==
  /\ n_toggles < MaxToggles
  /\ n_toggles' = n_toggles + 1
  /\ features' = CASE feature = "media" -> [features EXCEPT !.enable_media = ~@]
                   [] feature = "processes" -> [features EXCEPT !.enable_processes = ~@]
                   [] OTHER -> [features EXCEPT !.enable_stream = ~@]
  /\ UNCHANGED <<regVars, sessVars, authVars, supVars, extVars, mailbox, n_commands>>
  /\ UNCHANGED <<stats_loop, famVars, stats_enabled, gpu_enabled, gpu_cache, bus, behind,
                 lagged, sse_fields, delivered>>

\* The session that subscribes, its subscribe messages and its commands
LoopWs == {1}
LoopCommands == {[op |-> "media", action |-> "play"]}
LoopRequests == {<<"media">>, <<"processes", "cpu">>}

NextLoops ==
  \/ \E s \in LoopWs : BusWsConnect(s)
  \/ \E s \in LoopWs : \E topics \in LoopRequests : BusWsSubscribe(s, topics)
  \/ \E s \in LoopWs : BusWsSendLagged(s)
  \/ \E s \in LoopWs : \E ok \in BOOLEAN : BusWsSendEvent(s, ok)
  \/ \E s \in LoopWs : BusWsPeerClose(s)
  \/ \E e \in SseIds : \E fields_set \in FieldsParams : BusSseOpen(e, fields_set)
  \/ \E e \in SseIds : BusSsePoll(e)
  \/ \E e \in SseIds : BusSseRecv(e)
  \/ \E e \in SseIds : BusSseLagged(e)
  \/ \E e \in SseIds : BusSseDrop(e)
  \/ \E e \in SseIds : BusSseDropUnpolled(e)
  \/ \E probe \in BOOLEAN : StatsLoopRun(FALSE, probe)
  \/ \E sample \in {None} \cup {Some(m) : m \in MediaSamples} : MediaLoopRun(sample)
  \/ ProcessesLoopRun
  \/ \E feature \in {"media", "processes", "stream"} : ToggleFeature(feature)

\* The flags a configuration file may hold when the server starts: the
\* defaults, media and processes off, stats off
FeatureInputs ==
  {Features(TRUE, TRUE), Features(FALSE, FALSE),
   [Features(TRUE, TRUE) EXCEPT !.enable_stats = FALSE]}

InitLoopsSpec ==
  /\ InitEngine
  /\ InitAuthIdle
  /\ InitSup
  /\ InitExt
  /\ mailbox = [s \in WsIds |-> << >>]
  /\ features \in FeatureInputs
  /\ n_commands = 0

SpecLoops == InitLoopsSpec /\ [][NextLoops]_vars


\* The fingerprint of a sample: title, playing, muted, volume
Fingerprint(media) == <<media.title, media.playing, media.muted, media.volume>>

\* C29: the media loop is edge-triggered.  last_status is None when a loop
\* starts and is set to the fingerprint of every update the loop sends and
\* by nothing else, so it is the fingerprint of the last update sent; an
\* iteration that takes a sample sends it as MediaUpdate if and only if
\* its fingerprint differs from that one, and the first sample of a loop
\* is always sent (checked under SpecLoops)
C29_EdgeTriggered ==
  [][
      /\ \A m \in MediaSamples :
          (MediaLoopRun(Some(m)) /\ "media" \in refreshed')
            => /\ sent' = IF last_status # Some(Fingerprint(m))
                          THEN Some(MediaUpdate(m)) ELSE None
               /\ last_status' = IF IsSome(sent') THEN Some(Fingerprint(m)) ELSE last_status
               /\ (IsSome(sent') /\ IsSome(last_status))
                    => Fingerprint(Unwrap(sent').media) # Unwrap(last_status)
      /\ (MediaLoopRun(None) /\ "media" \in refreshed')
            => sent' = None /\ last_status' = last_status
      /\ media_loop' = "first" => last_status' = None
      /\ (media_loop = "first" /\ media_loop' = "sleeping" /\ "media" \in refreshed')
            => \A m \in MediaSamples : (MediaLoopRun(Some(m)) => sent' = Some(MediaUpdate(m)))
    ]_vars

\* after an update that is still unread, the loop has called the backend
\* again and has sent nothing
C29_Witness ==
  /\ media_loop = "sleeping"
  /\ refreshed = {"media"}
  /\ sent = None
  /\ IsSome(last_status)
  /\ \E r \in Receivers : RxOpen(r) /\ behind[r] > 0 /\ NextEvent(r).type = "media_update"


MediaInputs == {None} \cup {Some(m) : m \in MediaSamples}

NextSse ==
  \/ \E s \in LoopWs : BusWsConnect(s)
  \/ \E s \in LoopWs : \E topics \in LoopRequests : BusWsSubscribe(s, topics)
  \/ \E s \in LoopWs : BusWsSendLagged(s)
  \/ \E s \in LoopWs : \E ok \in BOOLEAN : BusWsSendEvent(s, ok)
  \/ \E s \in LoopWs : BusWsPeerClose(s)
  \/ \E s \in LoopWs : \E cmd \in LoopCommands : WsRecvControl(s, cmd, TRUE)
  \/ \E e \in SseIds : \E fields_set \in FieldsParams : BusSseOpen(e, fields_set)
  \/ \E e \in SseIds : BusSsePoll(e)
  \/ \E e \in SseIds : BusSseRecv(e)
  \/ \E e \in SseIds : BusSseLagged(e)
  \/ \E e \in SseIds : BusSseDrop(e)
  \/ \E e \in SseIds : BusSseDropUnpolled(e)
  \/ \E probe \in BOOLEAN : StatsLoopRun(FALSE, probe)
  \/ \E sample \in {None} \cup {Some(m) : m \in MediaSamples} : MediaLoopRun(sample)
  \/ ProcessesLoopRun

SpecSse == Init /\ [][NextSse]_vars


\* C21: an SSE stream is a subscription to the one topic stats; every event
\* it emits is a stats event of the bus in which a sub-field is present iff
\* it is present in the bus event and the fields set is empty or holds it;
\* media, process and feedback events of the bus are not forwarded (checked
\* under SpecSse)
C21_SseFixedStats ==
  [][
      /\ \A e \in SseIds : \A fields_set \in FieldsParams :
           (BusSseOpen(e, fields_set) /\ pc'[Sse(e)] # "init")
             => active_topics' = [active_topics EXCEPT !["stats"] = @ + 1]
      /\ \A e \in SseIds :
           BusSseRecv(e)
             => IF NextEvent(Sse(e)).type = "system_stats"
                THEN /\ IsSome(delivered')
                     /\ Unwrap(delivered').to = Sse(e)
                     /\ Unwrap(delivered').frame.type = "system_stats"
                     /\ \A X \in StatsSubFields :
                          X \in Unwrap(delivered').frame.payload
                            <=> /\ X \in NextEvent(Sse(e)).payload
                                /\ (sse_fields[e] = {} \/ X \in sse_fields[e])
                ELSE delivered' = delivered
    ]_vars

\* a stream with fields=cpu has emitted an event that carries cpu alone and
\* its next bus event is not a stats event
C21_Witness ==
  \E e \in SseIds :
    /\ sse_fields[e] = {"cpu"}
    /\ delivered = Some([to |-> Sse(e), frame |-> SystemStats({"cpu"})])
    /\ behind[Sse(e)] > 0
    /\ ~lagged[Sse(e)]
    /\ NextEvent(Sse(e)).type \in {"media_update", "process_list", "media_feedback"}


\* The feature flag of the capability an event belongs to
CapabilityOn(feat, ev) ==
  CASE ev.type = "system_stats" -> feat.enable_stats
    [] ev.type = "media_update" -> feat.enable_media
    [] ev.type = "process_list" -> feat.enable_processes
    [] OTHER -> TRUE

\* C23: while a feature flag is false its capability is denied at the
\* boundary: a stream request is refused and leaves no subscription, no
\* event is emitted on a stream while enable_stream is false, no sample of
\* stats, media or processes is written to a stream or a session while the
\* flag of its capability is false, and a loop whose flag is false calls no
\* backend (checked under SpecLoops)
C23_FlagDeniesCapability ==
  [][
      /\ \A e \in SseIds : \A fields_set \in FieldsParams :
           (BusSseOpen(e, fields_set) /\ ~features.enable_stream)
             => pc' = pc /\ active_topics' = active_topics
      /\ \A e \in SseIds :
           (BusSseRecv(e) /\ NextEvent(Sse(e)).type = "system_stats")
             => features.enable_stream /\ features.enable_stats
      /\ \A s \in WsIds :
           (BusWsSendEvent(s, TRUE)
              /\ IsSome(ws_frame(subscriptions[s], NextEvent(Main(s)))))
             => CapabilityOn(features, NextEvent(Main(s)))
      /\ \A sample \in MediaInputs :
           (MediaLoopRun(sample) /\ ~features.enable_media) => refreshed' = {}
      /\ (ProcessesLoopRun /\ ~features.enable_processes) => refreshed' = {}
    ]_vars


(***************************************************************************)
(* The cadence of the loops: update_ws_interval runs while sessions        *)
(* subscribe and the loops iterate.                                        *)
(***************************************************************************)
\* The intervals given to update_ws_interval: below the minimum, two
\* accepted ones, above the maximum
CadenceArgs == {99, 200, 60000, 60001}

NextCadence ==
  \/ \E s \in LoopWs : BusWsConnect(s)
  \/ \E s \in LoopWs : \E topics \in LoopRequests : BusWsSubscribe(s, topics)
  \/ \E s \in LoopWs : BusWsSendLagged(s)
  \/ \E s \in LoopWs : \E ok \in BOOLEAN : BusWsSendEvent(s, ok)
  \/ \E s \in LoopWs : BusWsPeerClose(s)
  \/ \E probe \in BOOLEAN : StatsLoopRun(FALSE, probe)
  \/ \E sample \in {None} \cup {Some(m) : m \in MediaSamples} : MediaLoopRun(sample)
  \/ ProcessesLoopRun
  \/ \E topic \in TopicArgs : \E interval_ms \in CadenceArgs :
       UpdateWsInterval(topic, interval_ms)

SpecCadence == Init /\ [][NextCadence]_vars

\* the loop task of a family
LoopTask(f) ==
  CASE f = "stats" -> stats_loop [] f = "media" -> media_loop [] OTHER -> processes_loop

\* an iteration of the family's loop that does not end the task
LoopIteration(f) ==
  /\ LoopTask(f)' = "sleeping"
  /\ CASE f = "stats" -> \E probe \in BOOLEAN : StatsLoopRun(FALSE, probe)
       [] f = "media" -> \E sample \in {None} \cup {Some(m) : m \in MediaSamples} :
                           MediaLoopRun(sample)
       [] OTHER -> ProcessesLoopRun

\* C31: update_ws_interval cancels and replaces no handle, changes no
\* registry count and leaves every loop task where it is, the value the
\* running iteration read included; the next iteration of a family's loop
\* reads the interval_ms then configured (checked under SpecCadence)
C31_IntervalNextIteration ==
  [][/\ \A topic \in TopicArgs : \A interval_ms \in CadenceArgs :
          UpdateWsInterval(topic, interval_ms)
            => /\ handle' = handle
               /\ active_topics' = active_topics
               /\ loops' = loops
               /\ \A f \in Families : LoopTask(f)' = LoopTask(f)
               /\ loop_interval' = loop_interval
     /\ \A f \in Families : LoopIteration(f) => loop_interval'[f] = Some(ws_interval[f])]_vars

\* the stats loop has iterated at 1000 ms, the interval is now 200 ms and
\* the same task is still the one in the handle
C31_Witness ==
  /\ stats_loop = "sleeping"
  /\ handle["stats"] = "some"
  /\ loop_interval["stats"] = Some(1000)
  /\ ws_interval["stats"] = 200


(***************************************************************************)
(* The GPU cache with its clock (handlers.rs lines 81-105).  The cache     *)
(* mutex is held from the freshness check to the return, so a call is one  *)
(* step; cache_seconds is the disk_cache_seconds the call read.            *)
(***************************************************************************)
MaxTime == 4

\* a freshness check that also takes a sample whose age equals the cache time
is_fresh_inclusive(updated, at, cache_seconds) == at - updated <= cache_seconds

\* stats.last_updated.elapsed() < Duration::from_secs(cache_seconds)
\* (handlers.rs line 92)
is_fresh(updated, at, cache_seconds) == at - updated < cache_seconds

\* one second passes
Tick ==
  /\ now < MaxTime
  /\ now' = now + 1
  /\ UNCHANGED <<gpu_updated, gpu_out>>
  /\ UNCHANGED <<engineVars, authVars, supVars, ctlVars, cfgVars, loopVars, lockVars>>

\* a call of get_or_update_gpu_stats (handlers.rs lines 81-105) by the
\* stats loop or a handler; probe: get_gpu_stats returns a sample, whose
\* last_updated is Instant::now() (gpu.rs lines 159, 203)
GpuCall(probe) ==
  LET cached == IsSome(gpu_updated)
      fresh == cached /\ is_fresh(Unwrap(gpu_updated), now, disk_cache_seconds)
      got == get_or_update_gpu_stats(gpu_enabled, cached, fresh, probe)
      probed == gpu_probed(gpu_enabled, cached, fresh)
      stored == IF probed /\ probe THEN Some(now) ELSE gpu_updated
  IN /\ gpu_updated' = stored
     /\ gpu_cache' = got.cache
     /\ gpu_out' = Some(GpuOut(IF got.value THEN stored ELSE None, probed, probed /\ probe))
     /\ UNCHANGED now
     /\ UNCHANGED <<regVars, sessVars, authVars, supVars, ctlVars, cfgVars, loopVars, lockVars>>
     /\ UNCHANGED <<stats_loop, famVars, stats_enabled, gpu_enabled, bus, behind, lagged,
                    sse_fields, delivered, n_toggles>>

\* The cache times given to update_disk_cache_seconds, and the one
\* update_config writes unchecked
GpuTtlArgs == {1, 2}
GpuUpdateArgs == {[NoUpdate EXCEPT !.disk = Some(0)]}

NextGpu ==
  \/ Tick
  \/ \E probe \in BOOLEAN : GpuCall(probe)
  \/ ToggleGpuStats
  \/ \E seconds \in GpuTtlArgs : UpdateDiskCacheSeconds(seconds)
  \/ \E updates \in GpuUpdateArgs : UpdateConfig(updates)

SpecGpu == Init /\ [][NextGpu]_vars

\* the cached sample is younger than the configured cache time
GpuHit == IsSome(gpu_updated) /\ now - Unwrap(gpu_updated) < disk_cache_seconds

\* what the claim says a call does: a hit returns the cached sample
\* without a probe; a miss probes, stores and returns the fresh sample on
\* success, returns the last good sample or nothing on failure
GpuCallAsClaimed(probe) ==
  IF GpuHit
  THEN gpu_out' = Some(GpuOut(gpu_updated, FALSE, FALSE)) /\ gpu_updated' = gpu_updated
  ELSE IF probe
  THEN gpu_out' = Some(GpuOut(Some(now), TRUE, TRUE)) /\ gpu_updated' = Some(now)
  ELSE gpu_out' = Some(GpuOut(gpu_updated, TRUE, FALSE)) /\ gpu_updated' = gpu_updated

\* C32: every call of the GPU cache returns the cached sample without
\* probing when its age is below stats.disk_cache_seconds, and otherwise
\* probes, stores and returns the fresh sample on success and returns the
\* last good sample, or nothing, on failure (checked under SpecGpu)
C32_GpuCacheTtl ==
  [][\A probe \in BOOLEAN : GpuCall(probe) => GpuCallAsClaimed(probe)]_vars

\* C32 amended: the same for every call made while stats.gpu_enabled is
\* true; a call made while it is false returns nothing, probes nothing and
\* leaves the cache as it is; a returned sample is older than the cache
\* time only when the probe of that call failed (checked under SpecGpu)
C32_GpuCacheTtlAmended ==
  [][\A probe \in BOOLEAN :
       GpuCall(probe)
         => /\ IF gpu_enabled
               THEN GpuCallAsClaimed(probe)
               ELSE gpu_out' = Some(GpuOut(None, FALSE, FALSE)) /\ gpu_updated' = gpu_updated
            /\ LET out == Unwrap(gpu_out')
               IN (IsSome(out.value) /\ now - Unwrap(out.value) > disk_cache_seconds)
                    => out.probed /\ ~out.ok]_vars

\* a call has returned a sample older than the cache time after its probe
\* failed
C32_Witness ==
  /\ IsSome(gpu_out)
  /\ IsSome(Unwrap(gpu_out).value)
  /\ now - Unwrap(Unwrap(gpu_out).value) > disk_cache_seconds
  /\ Unwrap(gpu_out).probed
  /\ ~Unwrap(gpu_out).ok
  /\ disk_cache_seconds > 0


(***************************************************************************)
(* The mutexes of the GPU cache.  get_or_update_gpu_stats is called by the *)
(* stats loop (mod.rs line 263) and by get_system_info and                 *)
(* get_system_usage (handlers.rs lines 207, 270).                          *)
(***************************************************************************)
\* get_or_update_gpu_stats (handlers.rs lines 81-105): the config guard is
\* dropped at the end of its block; the cache guard is taken at line 90
\* and lives to the return, over get_gpu_stats at line 98
locks_get_or_update_gpu_stats(branch) ==
  CASE branch = "disabled" -> <<Lock("config"), Unlock("config")>>
    [] branch = "hit" -> <<Lock("config"), Unlock("config"),
                           Lock("gpu_cache"), Unlock("gpu_cache")>>
    [] OTHER -> <<Lock("config"), Unlock("config"),
                  Lock("gpu_cache"), Work("get_gpu_stats"), Unlock("gpu_cache")>>

GpuBranches == {"disabled", "hit", "miss"}
GpuTasks == {<<"loop", 1>>} \cup HttpTasks

NextGpuLock ==
  \/ \E t \in GpuTasks : \E branch \in GpuBranches :
       LockCall(t, locks_get_or_update_gpu_stats(branch))
  \/ \E t \in GpuTasks : LockStep(t)

SpecGpuLock == Init /\ [][NextGpuLock]_vars

\* task t is running the GPU probe
Probing(t) == lock_pc[t] > 0 /\ NextStep(t) = Work("get_gpu_stats")

\* C33: the GPU probe runs while the cache lock is not held, so no caller
\* waits for the cache lock while another caller probes (checked under
\* SpecGpuLock)
C33_ProbeOutsideLock ==
  \A t \in GpuTasks :
    Probing(t)
      => /\ "gpu_cache" \notin Held(t)
         /\ \A u \in GpuTasks : ~(Wants(u) = {"gpu_cache"} /\ lock_owner["gpu_cache"] = Some(t))


(***************************************************************************)
(* Sessions without a subscription next to subscribed ones: every kind of  *)
(* event is published while a session has no set or an empty one.          *)
(***************************************************************************)
QuietRequests == {<< >>, <<"cpu", "media">>, <<"processes">>}
QuietCommands ==
  {[op |-> "media", action |-> "play"], [op |-> "process_kill", action |-> "kill"]}
QuietSamples == {Some(MediaStatus("song", "band"))}

NextQuiet ==
  \/ \E s \in WsIds : BusWsConnect(s)
  \/ \E s \in WsIds : \E topics \in QuietRequests : BusWsSubscribe(s, topics)
  \/ \E s \in WsIds : \E cmd \in QuietCommands : WsRecvControl(s, cmd, TRUE)
  \/ \E s \in WsIds : BusWsSendLagged(s)
  \/ \E s \in WsIds : \E ok \in BOOLEAN : BusWsSendEvent(s, ok)
  \/ \E s \in WsIds : BusWsPeerClose(s)
  \/ StatsLoopRun(FALSE, TRUE)
  \/ \E sample \in QuietSamples : MediaLoopRun(sample)
  \/ ProcessesLoopRun

SpecQuiet == Init /\ [][NextQuiet]_vars

\* session s has no subscription set, or an empty one
Unsubscribed(s) == subscriptions[s] = None \/ subscriptions[s] = Some({})

DataFrames ==
  {"system_stats", "media_update", "process_list", "media_feedback", "process_feedback"}

\* C34: while a WebSocket session has never subscribed, or has last
\* subscribed with an empty topic list, its send task takes every event off
\* the bus without writing a frame and the session stays open (checked
\* under SpecQuiet)
C34_NoSubscriptionNoData ==
  [][\A s \in WsIds :
       (Unsubscribed(s) /\ \E ok \in BOOLEAN : BusWsSendEvent(s, ok))
         => /\ NextEvent(Main(s)).type \in DataFrames
            /\ delivered' = delivered
            /\ WsLive(s)']_vars

\* a session that subscribed and then subscribed with an empty list is
\* behind on the bus while another session has been written a frame
C34_Witness ==
  \E s \in WsIds : \E r \in WsIds :
    /\ s # r
    /\ subscriptions[s] = Some({})
    /\ WsLive(s)
    /\ behind[Main(s)] = 0
    /\ Len(bus) > 0
    /\ IsSome(delivered)
    /\ Unwrap(delivered).to = Main(r)

(***************************************************************************)
(* A subscribe that replaces a set.  Session 1 has subscribed to cpu and   *)
(* the stats loop runs; from there the sessions subscribe, step by step as *)
(* under Spec.                                                             *)
(***************************************************************************)
HeldRequest == <<"CPU">>
ReplaceRequests == {<<"CPU">>, <<"stats.gpu", "Media">>}

\* the state after session 1 connected and its Subscribe(HeldRequest) was
\* processed
InitReplace ==
  /\ active_topics = SubscribeCounts([t \in Topics |-> 0], NewSet(HeldRequest))
  /\ handle = [f \in Families |-> IF f = "stats" THEN "some" ELSE "none"]
  /\ subscriptions = [s \in WsIds |-> IF s = 1 THEN Some(NewSet(HeldRequest)) ELSE None]
  /\ pc = [t \in Tasks |->
            CASE t = Main(1) -> "select" [] t = Recv(1) -> "await" [] t = Send(1) -> "run"
              [] OTHER -> "init"]
  /\ call = [t \in Tasks |-> NoCall]
  /\ recv_new = [s \in WsIds |-> {}]
  /\ recv_abort = [s \in WsIds |-> FALSE]
  /\ n_subscribes = 0
  /\ stats_loop = "none" /\ media_loop = "none" /\ processes_loop = "none"
  /\ last_status = None
  /\ loop_interval = [f \in Families |-> None]
  /\ aborted = [f \in Families |-> FALSE]
  /\ stats_enabled = TRUE /\ gpu_enabled = TRUE /\ gpu_cache = FALSE
  /\ bus = << >>
  /\ behind = [r \in Receivers |-> 0]
  /\ lagged = [r \in Receivers |-> FALSE]
  /\ sse_fields = [e \in SseIds |-> {}]
  /\ delivered = None
  /\ n_toggles = 0
  /\ InitAuthIdle /\ InitSup /\ InitCtlIdle /\ InitCfg /\ InitLocks /\ InitGpu
  /\ loops = [f \in Families |-> IF f = "stats" THEN 1 ELSE 0]
  /\ refreshed = {}
  /\ sent = None

NextReplace ==
  \/ \E t \in Tasks : SubscribeLock(t)
  \/ \E t \in Tasks : EnsureLoopRunning(t)
  \/ \E t \in Tasks : UnsubscribeLock(t)
  \/ \E t \in Tasks : StopLoopCheck(t)
  \/ \E t \in Tasks : StopLoopTake(t)
  \/ \E s \in WsIds : WsConnect(s)
  \/ \E s \in WsIds, topics \in ReplaceRequests : WsRecvSubscribe(s, topics)
  \/ \E s \in WsIds : WsRecvStore(s)

SpecReplace == InitReplace /\ [][NextReplace]_vars

\* the set holds a topic of family f
DemandIn(topics, f) == \E topic \in topics : FamilyOf(topic) = f

\* session s is in the unsubscribe half of a replacement and
\* stop_loop_if_idle reads the registry for family f
ReplaceChecks(s, f) ==
  /\ StopLoopCheck(Recv(s))
  /\ pc[Recv(s)] = "sub_unsub"
  /\ \E topic \in NextTopics(call[Recv(s)].todo) :
       FamilyOf(topic) = f /\ call'[Recv(s)].todo = call[Recv(s)].todo \ {topic}

\* C35: when a session has processed a subscribe that replaces a set with
\* demand in family f by another set with demand in f, and no other
\* registry call is in progress, the handle of f holds a running loop; and
\* a replacement that finds a subscriber of f left in
\* the registry does not go on to take the handle of f (checked under
\* SpecReplace)
C35_ReplaceKeepsLoop ==
  [][\A s \in WsIds : \A f \in Families :
       /\ (/\ WsRecvStore(s)
           /\ IsSome(subscriptions[s])
           /\ DemandIn(Unwrap(subscriptions[s]), f)
           /\ DemandIn(recv_new[s], f)
           /\ \A t \in Tasks : call[t].op = "none")
            => (handle'[f] = "some" /\ loops'[f] = 1)
       /\ (ReplaceChecks(s, f) /\ has_subs(active_topics, f))
            => call'[Recv(s)].stage # "take"]_vars


(***************************************************************************)
(* The stats loop as a task of the multi-threaded runtime.  The task is    *)
(* polled when its sleep returns and runs lines 189-312 without an await;  *)
(* JoinHandle::abort() marks the task and takes effect when the task next  *)
(* yields, so a task that is aborted while it is polled runs on to the     *)
(* sleep of its next iteration.                                            *)
(***************************************************************************)
\* spawn_stats_loop, lines 189-312: the receiver check, the demand mask,
\* the samplers and the send
StatsSample(probe) ==
  IF receiver_count = 0 \/ DemandMask(active_topics) = {}
  THEN /\ refreshed' = {}
       /\ sent' = None
       /\ UNCHANGED <<gpu_cache, bus, behind, lagged>>
  ELSE LET mask == DemandMask(active_topics)
           gpu == get_or_update_gpu_stats(gpu_enabled, gpu_cache, FALSE, probe)
           payload == StreamPayload(mask, gpu.value)
       IN /\ gpu_cache' = IF "gpu" \in mask THEN gpu.cache ELSE gpu_cache
          /\ refreshed' = refresh_samplers(mask, gpu_probed(gpu_enabled, gpu_cache, FALSE))
          /\ sent' = Some(SystemStats(payload))
          /\ BusSend(SystemStats(payload))

\* spawn_stats_loop, lines 170-187: the config is read, the loop is
\* enabled, the sleep (none in the first run) returns
StatsLoopWake ==
  /\ stats_loop \in {"first", "sleeping"}
  /\ stats_enabled
  /\ stats_loop' = "body"
  /\ loop_interval' = [loop_interval EXCEPT
                         !["stats"] = Some(interval_read(loop_interval["stats"], ws_interval["stats"]))]
  /\ refreshed' = {}
  /\ sent' = None
  /\ UNCHANGED <<regVars, sessVars>>
  /\ UNCHANGED <<media_loop, processes_loop, last_status, aborted, stats_enabled, gpu_enabled,
                 gpu_cache, bus, behind, lagged, sse_fields, delivered>>
  /\ UNCHANGED <<n_toggles, authVars, supVars, ctlVars, restVars, cfgVars, lockVars, loops>>

\* the task in the handle runs lines 189-312 and reaches the next sleep
StatsLoopBody(probe) ==
  /\ stats_loop = "body"
  /\ stats_loop' = "sleeping"
  /\ StatsSample(probe)
  /\ UNCHANGED <<regVars, sessVars>>
  /\ UNCHANGED <<media_loop, processes_loop, last_status, loop_interval, aborted,
                 stats_enabled, gpu_enabled, sse_fields, delivered>>
  /\ UNCHANGED <<n_toggles, authVars, supVars, ctlVars, restVars, cfgVars, lockVars, loops>>

\* a task that was aborted while polled runs lines 189-312 and is dropped
\* at the next sleep
AbortedLoopBody(probe) ==
  /\ aborted["stats"]
  /\ aborted' = [aborted EXCEPT !["stats"] = FALSE]
  /\ StatsSample(probe)
  /\ UNCHANGED <<regVars, sessVars>>
  /\ UNCHANGED <<stats_loop, media_loop, processes_loop, last_status, loop_interval,
                 stats_enabled, gpu_enabled, sse_fields, delivered>>
  /\ UNCHANGED <<n_toggles, authVars, supVars, ctlVars, restVars, cfgVars, lockVars, loops>>

AbortRequests == {<<"cpu">>, <<"memory">>}

NextAbort ==
  \/ \E s \in LoopWs : BusWsConnect(s)
  \/ \E s \in LoopWs : \E topics \in AbortRequests : BusWsSubscribe(s, topics)
  \/ \E s \in LoopWs : BusWsSendLagged(s)
  \/ \E s \in LoopWs : \E ok \in BOOLEAN : BusWsSendEvent(s, ok)
  \/ \E s \in LoopWs : BusWsPeerClose(s)
  \/ \E e \in SseIds : \E fields_set \in FieldsParams : BusSseOpen(e, fields_set)
  \/ \E e \in SseIds : BusSsePoll(e)
  \/ \E e \in SseIds : BusSseRecv(e)
  \/ \E e \in SseIds : BusSseLagged(e)
  \/ \E e \in SseIds : BusSseDrop(e)
  \/ \E e \in SseIds : BusSseDropUnpolled(e)
  \/ StatsLoopWake
  \/ \E probe \in BOOLEAN : StatsLoopBody(probe)
  \/ \E probe \in BOOLEAN : AbortedLoopBody(probe)

SpecAbort == Init /\ [][NextAbort]_vars

\* C36: a stats loop task whose handle was taken and aborted publishes no
\* further event, so that it never publishes next to the task that
\* succeeds it in the handle (checked under SpecAbort)
C36_CancelledLoopSilent ==
  [][\A probe \in BOOLEAN : AbortedLoopBody(probe) => (sent' = None /\ bus' = bus)]_vars


(***************************************************************************)
(* The status cell under a reload (server/mod.rs start_server, lib.rs      *)
(* reload_config).  Every supervisor writes the one Arc<Mutex<ServerStatus>>*)
(* that run() created: Running after its bind, Stopped or Error when its   *)
(* server future returns.  reload_config spawns the next supervisor 500 ms *)
(* after the shutdown signal, whether or not the one before has returned.  *)
(***************************************************************************)
\* the supervisor whose sender ServerControl holds: the one spawned last
Latest == Unwrap(control)

\* C37: whenever a supervisor is bound and serving, the shared ServerStatus
\* is Running: while the supervisor spawned last serves with the status
\* Running, no step of an earlier supervisor that is still draining takes
\* the status away from Running (checked under SpecSup)
C37_ServingIsRunning ==
  [][(/\ Accepting(Latest) /\ status = "Running"
      /\ \E g \in Gens : g < Latest /\ sup[g] = "draining"
      /\ sup'[Latest] = "serving")
       => status' = "Running"]_vars


(***************************************************************************)
(* The topics that start the stats loop and the topics that set a bit of   *)
(* its mask (server/mod.rs ensure_loop_running, spawn_stats_loop lines     *)
(* 196-222; ws.rs send task).  The sleep of the loop ends and the runtime  *)
(* polls every task that can run; no sampler and no socket write fails.    *)
(***************************************************************************)
SystemRequests == {<<"system">>, <<"cpu">>}

NextSystem ==
  \/ \E s \in WsIds : BusWsConnect(s)
  \/ \E s \in WsIds : \E topics \in SystemRequests : BusWsSubscribe(s, topics)
  \/ \E s \in WsIds : BusWsSendLagged(s)
  \/ \E s \in WsIds : BusWsSendEvent(s, TRUE)
  \/ \E s \in WsIds : BusWsPeerClose(s)
  \/ StatsLoopRun(TRUE, TRUE)

SystemFairness ==
  /\ WF_vars(StatsLoopRun(TRUE, TRUE))
  /\ \A s \in WsIds : WF_vars(BusWsSendEvent(s, TRUE))
  /\ \A s \in WsIds : WF_vars(BusWsSendLagged(s))

SpecSystem == Init /\ [][NextSystem]_vars /\ SystemFairness

\* the session holds a topic for which ensure_loop_running starts the stats
\* loop, and the loop is enabled
StatsDemand(s) ==
  /\ WsLive(s)
  /\ IsSome(subscriptions[s])
  /\ \E t \in Unwrap(subscriptions[s]) : is_stats_topic(t)
  /\ stats_enabled

\* the frame written last went to session s and is a system_stats frame
GotSystemStats(s) ==
  /\ IsSome(delivered)
  /\ Unwrap(delivered).to = Main(s)
  /\ Unwrap(delivered).frame.type = "system_stats"

\* C38: a session whose subscription holds a topic that the LoopManager
\* treats as a stats topic (system included) eventually receives a
\* system_stats frame, unless it stops being subscribed (checked under
\* SpecSystem)
C38_StatsTopicGetsFrame ==
  \A s \in WsIds : StatsDemand(s) ~> (GotSystemStats(s) \/ ~StatsDemand(s))


(***************************************************************************)
(* The first sample of a loop that a stream request starts                 *)
(* (handlers.rs handle_stream lines 312-322, server/mod.rs spawn_stats_loop*)
(* lines 183-193).  subscribe_topics runs in the handler; the receiver is  *)
(* created by the first poll of the stream, after the handler returned.    *)
(***************************************************************************)
\* the stream request of session e started the stats loop and the loop has
\* not run yet: the request is past subscribe_topics, no WebSocket session
\* holds a subscription
StartedByStream(e) ==
  /\ pc[Sse(e)] \in {"unpolled", "streaming"}
  /\ \A s \in WsIds : subscriptions[s] = None
  /\ stats_loop = "first"
  /\ stats_enabled

\* C39: an SSE client whose request starts the stats loop receives the
\* loop's first sample: the first iteration finds the client's receiver,
\* publishes, and the event is queued for the client (checked under SpecBus)
C39_SseFirstSample ==
  [][\A e \in SseIds :
       (StartedByStream(e) /\ stats_loop' = "sleeping")
         => (IsSome(sent') /\ behind'[Sse(e)] > 0)]_vars


(***************************************************************************)
(* A second subscriber of the media loop (server/mod.rs spawn_media_loop   *)
(* lines 320-385, ensure_loop_running lines 69-74).  The player keeps one  *)
(* state: get_media_status returns the same MediaStatus in every           *)
(* iteration.  The sleep of the loop ends, the runtime polls every task    *)
(* that can run and no socket write fails.                                 *)
(***************************************************************************)
CurrentMedia == MediaStatus("song", "band")

MediaRequests == {<<"media">>}

NextMedia ==
  \/ \E s \in WsIds : BusWsConnect(s)
  \/ \E s \in WsIds : \E topics \in MediaRequests : BusWsSubscribe(s, topics)
  \/ \E s \in WsIds : BusWsSendLagged(s)
  \/ \E s \in WsIds : BusWsSendEvent(s, TRUE)
  \/ \E s \in WsIds : BusWsPeerClose(s)
  \/ MediaLoopRun(Some(CurrentMedia))

MediaFairness ==
  /\ WF_vars(MediaLoopRun(Some(CurrentMedia)))
  /\ \A s \in WsIds : WF_vars(BusWsSendEvent(s, TRUE))
  /\ \A s \in WsIds : WF_vars(BusWsSendLagged(s))

SpecMedia == Init /\ [][NextMedia]_vars /\ MediaFairness

\* session s is subscribed to media
MediaDemand(s) ==
  /\ WsLive(s)
  /\ IsSome(subscriptions[s])
  /\ "media" \in Unwrap(subscriptions[s])

\* the frame written last went to session s and is a media_update with the
\* current media status
GotMediaUpdate(s) ==
  /\ IsSome(delivered)
  /\ Unwrap(delivered).to = Main(s)
  /\ Unwrap(delivered).frame = MediaUpdate(CurrentMedia)

\* C40: a session that subscribes to media while the media loop already
\* runs for another session eventually receives a media_update with the
\* current media status, although the media state does not change; stated
\* for every subscribed session, until it stops being subscribed (checked
\* under SpecMedia)
C40_LateSubscriberGetsMedia ==
  \A s \in WsIds : MediaDemand(s) ~> (GotMediaUpdate(s) \/ ~MediaDemand(s))

=============================================================================
